---- MODULE Spec2Model ----
(***************************************************************************)
(* PhotoAgency: the in-memory job tracker (analyzer/job_manager.py), the   *)
(* audit orchestration service (analyzer/services.py) and the audit        *)
(* trigger endpoints (analyzer/views.py).                                  *)
(*                                                                         *)
(* Python values are modelled as follows.  An optional value (None or a    *)
(* value) is a sequence of length 0 or 1.  A dict that is shared by        *)
(* reference (a log entry, a result entry) lives in `heap` and is named    *)
(* by a reference; a list is the sequence of the references it holds.      *)
(***************************************************************************)
EXTENDS Integers, Sequences, FiniteSets, TLC

VARIABLES
    jobs,       \* job_manager._jobs: job id -> job dict
    heap,       \* the entry dicts appended to a job's logs / results
    lock,       \* job_manager._lock: the thread holding it, or None
    clock,      \* wall clock read by datetime.now(), in microseconds
    nextId,     \* number of job ids generated so far (uuid4 never repeats)
    snap,       \* the dict last returned by get_job to a tracker client
    lifecycle,  \* per job: how far its calls follow create/log*/done/complete
    ncalls,     \* tracker calls made by the tracker clients so far
    stores,     \* database table Store: pk -> row
    analyses,   \* database table StoreAnalysis: the rows, pk = position
    procs,      \* per job: the request and then the background thread serving it
    import_result,  \* what the last import_stores_from_content returned
    auditor,    \* a run of scripts/shopify_complete.py
    scraper     \* a run of scripts/selenium_extractor.py

\* the state outside the web process's audit workflows
batch == <<import_result, auditor, scraper>>

vars == <<jobs, heap, lock, clock, nextId, snap, lifecycle, ncalls,
          stores, analyses, procs, batch>>

----------------------------------------------------------------------------
(* Bounds *)

MaxCalls == 5

(* Python None / a value *)
None == <<>>
Some(v) == <<v>>
\* bool(x) of an optional int: None and 0 are false
TruthyInt(o) == o # None /\ o[1] # 0

MicrosPerSecond == 1000000

----------------------------------------------------------------------------
(* datetime formatting *)

\* datetime.isoformat(): the fraction is left out when the microseconds are 0.
\* The text is modelled by its fields, most significant first, so that the
\* order of the texts is the lexicographic order of the field sequences.
isoformat(t) ==
    IF t % MicrosPerSecond = 0
    THEN <<t \div MicrosPerSecond>>
    ELSE <<t \div MicrosPerSecond, t % MicrosPerSecond>>

\* datetime.strftime('%H:%M:%S'): the time of day, whole seconds
strftime(t) == t \div MicrosPerSecond

\* str.__lt__ on two isoformat texts
RECURSIVE StrLess(_, _)
StrLess(a, b) ==
    IF a = <<>> THEN b # <<>>
    ELSE IF b = <<>> THEN FALSE
    ELSE IF Head(a) # Head(b) THEN Head(a) < Head(b)
    ELSE StrLess(Tail(a), Tail(b))

----------------------------------------------------------------------------
(* job_manager: the operations, as functions of the registry R =           *)
(* [jobs, heap] that return the registry after the call                    *)

Reg == [jobs |-> jobs, heap |-> heap]

LogRef(job_id, i) == <<job_id, "logs", i>>
ResultRef(job_id, i) == <<job_id, "results", i>>

create_job(R, job_id, job_type, total, now) ==
    [R EXCEPT !.jobs = job_id :> [
        id           |-> job_id,
        type         |-> job_type,
        status       |-> "running",
        total        |-> total,
        completed    |-> 0,
        success      |-> 0,
        errors       |-> 0,
        current_url  |-> None,
        current_name |-> None,
        logs         |-> <<>>,
        results      |-> <<>>,
        started_at   |-> isoformat(now),
        finished_at  |-> None,
        store_pk     |-> None,
        analysis_pk  |-> None ] @@ R.jobs]

\* The dict get_job returns: a new dict with the job's items, and two new
\* lists holding the same entry dicts as the job's lists.
get_job(R, job_id) ==
    IF job_id \notin DOMAIN R.jobs THEN None
    ELSE Some([R.jobs[job_id] EXCEPT
                  !.logs    = [i \in 1..Len(R.jobs[job_id].logs) |-> R.jobs[job_id].logs[i]],
                  !.results = [i \in 1..Len(R.jobs[job_id].results) |-> R.jobs[job_id].results[i]]])

add_log(R, job_id, msg, level, now) ==
    IF job_id \notin DOMAIN R.jobs THEN R
    ELSE LET ref == LogRef(job_id, Len(R.jobs[job_id].logs) + 1)
         IN  [jobs |-> [R.jobs EXCEPT ![job_id].logs = Append(@, ref)],
              heap |-> (ref :> [time |-> strftime(now), level |-> level, msg |-> msg])
                       @@ R.heap]

set_current(R, job_id, url, name) ==
    IF job_id \notin DOMAIN R.jobs THEN R
    ELSE [R EXCEPT !.jobs[job_id].current_url  = Some(url),
                   !.jobs[job_id].current_name = Some(name)]

\* variant: a failed store is recorded but not counted as an error
mark_store_done_uncounted(R, job_id, url, name, success, score, priority, error) ==
    IF job_id \notin DOMAIN R.jobs THEN R
    ELSE LET ref == ResultRef(job_id, Len(R.jobs[job_id].results) + 1)
         IN  [jobs |-> [R.jobs EXCEPT
                          ![job_id].completed = @ + 1,
                          ![job_id].success   = IF success THEN @ + 1 ELSE @,
                          ![job_id].results   = Append(@, ref)],
              heap |-> (ref :> [url |-> url, name |-> name, success |-> success,
                                score |-> score, priority |-> priority,
                                error |-> error])
                       @@ R.heap]

mark_store_done(R, job_id, url, name, success, score, priority, error) ==
    IF job_id \notin DOMAIN R.jobs THEN R
    ELSE LET ref == ResultRef(job_id, Len(R.jobs[job_id].results) + 1)
         IN  [jobs |-> [R.jobs EXCEPT
                          ![job_id].completed = @ + 1,
                          ![job_id].success   = IF success THEN @ + 1 ELSE @,
                          ![job_id].errors    = IF success THEN @ ELSE @ + 1,
                          ![job_id].results   = Append(@, ref)],
              heap |-> (ref :> [url |-> url, name |-> name, success |-> success,
                                score |-> score, priority |-> priority,
                                error |-> error])
                       @@ R.heap]

\* variant: the analysis id is not attached
complete_job_without_pk(R, job_id, analysis_pk, now) ==
    IF job_id \notin DOMAIN R.jobs THEN R
    ELSE [R EXCEPT !.jobs[job_id].status       = "completed",
                   !.jobs[job_id].finished_at  = Some(isoformat(now)),
                   !.jobs[job_id].current_url  = None,
                   !.jobs[job_id].current_name = None]

complete_job(R, job_id, analysis_pk, now) ==
    IF job_id \notin DOMAIN R.jobs THEN R
    ELSE [R EXCEPT !.jobs[job_id].status       = "completed",
                   !.jobs[job_id].finished_at  = Some(isoformat(now)),
                   !.jobs[job_id].current_url  = None,
                   !.jobs[job_id].current_name = None,
                   !.jobs[job_id].analysis_pk  =
                       IF TruthyInt(analysis_pk) THEN analysis_pk ELSE @]

\* variant: the job is marked failed without the log entry
fail_job_without_log(R, job_id, error, now) ==
    IF job_id \notin DOMAIN R.jobs THEN R
    ELSE [R EXCEPT !.jobs[job_id].status      = "error",
                   !.jobs[job_id].finished_at = Some(isoformat(now))]

fail_job(R, job_id, error, now) ==
    IF job_id \notin DOMAIN R.jobs THEN R
    ELSE LET ref == LogRef(job_id, Len(R.jobs[job_id].logs) + 1)
         IN  [jobs |-> [R.jobs EXCEPT
                          ![job_id].status      = "error",
                          ![job_id].finished_at = Some(isoformat(now)),
                          ![job_id].logs        = Append(@, ref)],
              heap |-> (ref :> [time |-> strftime(now), level |-> "error",
                                msg |-> <<"Errore fatale: ", error>>])
                       @@ R.heap]

\* dict iteration order: insertion order.  Job ids are numbered in the order
\* they were generated, so insertion order is ascending id.
RECURSIVE items(_)
items(J) ==
    IF DOMAIN J = {} THEN <<>>
    ELSE LET first == CHOOSE j \in DOMAIN J : \A k \in DOMAIN J : j <= k
         IN  <<first>> \o items([k \in DOMAIN J \ {first} |-> J[k]])

\* list.sort(key=started_at): stable, by str comparison of the keys
RECURSIVE InsertByStartedAt(_, _, _)
InsertByStartedAt(J, sorted, jid) ==
    IF sorted = <<>> THEN <<jid>>
    ELSE IF StrLess(J[jid].started_at, J[Head(sorted)].started_at)
         THEN <<jid>> \o sorted
         ELSE <<Head(sorted)>> \o InsertByStartedAt(J, Tail(sorted), jid)

\* variant: the list is left in dict order
Unsorted(J, list) == list

RECURSIVE SortByStartedAt(_, _)
SortByStartedAt(J, list) ==
    IF list = <<>> THEN <<>>
    ELSE InsertByStartedAt(J, SortByStartedAt(J, SubSeq(list, 1, Len(list) - 1)),
                           list[Len(list)])

\* list[:n] for n >= 0
SliceTo(list, n) == SubSeq(list, 1, IF n < Len(list) THEN n ELSE Len(list))

SeqRange(list) == {list[i] : i \in 1..Len(list)}

\* variant: running jobs are candidates too
cleanup_any_status(R, max_jobs) ==
    IF Cardinality(DOMAIN R.jobs) > max_jobs
    THEN LET completed == SortByStartedAt(R.jobs, items(R.jobs))
             doomed    == SeqRange(SliceTo(completed, Cardinality(DOMAIN R.jobs) - max_jobs))
         IN  [R EXCEPT !.jobs = [jid \in DOMAIN R.jobs \ doomed |-> R.jobs[jid]]]
    ELSE R

cleanup_old_jobs(R, max_jobs) ==
    IF Cardinality(DOMAIN R.jobs) > max_jobs
    THEN LET NotRunning(jid) == R.jobs[jid].status # "running"
             completed == SortByStartedAt(R.jobs, SelectSeq(items(R.jobs), NotRunning))
             doomed    == SeqRange(SliceTo(completed, Cardinality(DOMAIN R.jobs) - max_jobs))
         IN  [R EXCEPT !.jobs = [jid \in DOMAIN R.jobs \ doomed |-> R.jobs[jid]]]
    ELSE R

----------------------------------------------------------------------------
(* Tracker clients: any thread calling the job_manager functions, one call *)
(* at a time.  A call takes _lock for its whole body, so it is one step    *)
(* that needs the lock free.                                               *)

CreateArgs == {[job_type |-> "single", total |-> 1]}
LogMsgs == {<<"riga">>}
LogLevels == {"info"}
Targets == {[url |-> "https://a.myshopify.com", name |-> "A"]}
Outcomes == {[success |-> TRUE, score |-> 72, priority |-> "WARM", error |-> ""],
             [success |-> FALSE, score |-> 0, priority |-> "", error |-> "boom"]}
AnalysisPks == {None, Some(7)}
ErrorTexts == {"boom"}

\* datetime.now() is the local wall clock: since it was last read it has
\* stood still, moved on, or been set back
Ticks == {-1, 0, 1}

KnownIds == 1..nextId

Budget == ncalls < MaxCalls

Commit(R) ==
    /\ jobs' = R.jobs
    /\ heap' = R.heap
    /\ ncalls' = ncalls + 1
    /\ UNCHANGED <<batch, lock, stores, analyses, procs>>

\* the calls of job j so far are create_job, add_log*, then `phase`
Follows(j, from, to, pk) ==
    lifecycle' = [lifecycle EXCEPT ![j] =
                     IF j \in DOMAIN jobs /\ @.phase \in from
                     THEN [phase |-> to, pk |-> pk]
                     ELSE [phase |-> "off", pk |-> None]]

Call_create_job ==
    /\ Budget /\ lock = None
    /\ \E a \in CreateArgs, dt \in Ticks :
          /\ clock' = clock + dt
          /\ Commit(create_job(Reg, nextId + 1, a.job_type, a.total, clock'))
    /\ nextId' = nextId + 1
    /\ lifecycle' = (nextId + 1 :> [phase |-> "logging", pk |-> None]) @@ lifecycle
    /\ UNCHANGED snap

Call_get_job ==
    /\ Budget /\ lock = None
    /\ \E j \in KnownIds : snap' = get_job(Reg, j)
    /\ Commit(Reg)
    /\ UNCHANGED <<clock, nextId, lifecycle>>

Call_add_log ==
    /\ Budget /\ lock = None
    /\ \E j \in KnownIds, msg \in LogMsgs, level \in LogLevels :
          /\ Commit(add_log(Reg, j, msg, level, clock))
          /\ Follows(j, {"logging"}, "logging", None)
    /\ UNCHANGED <<clock, nextId, snap>>

Call_set_current ==
    /\ Budget /\ lock = None
    /\ \E j \in KnownIds, t \in Targets :
          /\ Commit(set_current(Reg, j, t.url, t.name))
          /\ Follows(j, {}, "off", None)
    /\ UNCHANGED <<clock, nextId, snap>>

Call_mark_store_done ==
    /\ Budget /\ lock = None
    /\ \E j \in KnownIds, t \in Targets, o \in Outcomes :
          /\ Commit(mark_store_done(Reg, j, t.url, t.name, o.success, o.score,
                                    o.priority, o.error))
          /\ Follows(j, IF o.success THEN {"logging"} ELSE {}, "done", None)
    /\ UNCHANGED <<clock, nextId, snap>>

Call_complete_job ==
    /\ Budget /\ lock = None
    /\ \E j \in KnownIds, analysis_pk \in AnalysisPks :
          /\ Commit(complete_job(Reg, j, analysis_pk, clock))
          /\ Follows(j, {"done"}, "completed", analysis_pk)
    /\ UNCHANGED <<clock, nextId, snap>>

Call_fail_job ==
    /\ Budget /\ lock = None
    /\ \E j \in KnownIds, error \in ErrorTexts :
          /\ Commit(fail_job(Reg, j, error, clock))
          /\ Follows(j, {}, "off", None)
    /\ UNCHANGED <<clock, nextId, snap>>

Call_cleanup_old_jobs ==
    /\ Budget /\ lock = None
    /\ \E max_jobs \in 0..Cardinality(DOMAIN jobs) :
          Commit(cleanup_old_jobs(Reg, max_jobs))
    /\ UNCHANGED <<clock, nextId, snap, lifecycle>>

\* What a client may do with the dict it got from get_job: rebind one of
\* its items, change one of its two lists, or change an entry dict that it
\* reached through one of the lists.
Client_set_item ==
    /\ Budget /\ snap # None
    /\ snap' = Some([snap[1] EXCEPT !.status = "edited"])
    /\ ncalls' = ncalls + 1
    /\ UNCHANGED <<batch, jobs, heap, lock, clock, nextId, lifecycle, stores, analyses, procs>>

Client_change_list ==
    /\ Budget /\ snap # None /\ snap[1].logs # <<>>
    /\ snap' = Some([snap[1] EXCEPT !.logs = Tail(@)])
    /\ ncalls' = ncalls + 1
    /\ UNCHANGED <<batch, jobs, heap, lock, clock, nextId, lifecycle, stores, analyses, procs>>

Client_change_entry ==
    /\ Budget /\ snap # None
    /\ \E i \in 1..Len(snap[1].logs) :
          heap' = [heap EXCEPT ![snap[1].logs[i]].msg = <<"edited">>]
    /\ ncalls' = ncalls + 1
    /\ UNCHANGED <<batch, jobs, snap, lock, clock, nextId, lifecycle, stores, analyses, procs>>

TrackerCall ==
    \/ Call_create_job
    \/ Call_get_job
    \/ Call_add_log
    \/ Call_set_current
    \/ Call_mark_store_done
    \/ Call_complete_job
    \/ Call_fail_job
    \/ Call_cleanup_old_jobs

ClientChange ==
    \/ Client_set_item
    \/ Client_change_list
    \/ Client_change_entry

InitTracker ==
    /\ jobs = <<>>
    /\ heap = <<>>
    /\ lock = None
    /\ clock = MicrosPerSecond - 1
    /\ nextId = 0
    /\ snap = None
    /\ lifecycle = <<>>
    /\ ncalls = 0
    /\ stores = <<>>
    /\ analyses = <<>>
    /\ procs = <<>>
    /\ import_result = None
    /\ auditor = None
    /\ scraper = None

NextTracker == TrackerCall \/ ClientChange

SpecTracker == InitTracker /\ [][NextTracker]_vars

----------------------------------------------------------------------------
(* The database (stores/models.py) and the Auditor's output *)

ContactFields ==
    {"email", "phone", "whatsapp_url", "piva", "address",
     "instagram", "facebook", "tiktok", "linkedin"}

Blank == [f \in ContactFields |-> ""]

\* Store rows at start: the urls of the stored shops, by pk
StoreUrls == <<"https://a.myshopify.com", "https://b.myshopify.com">>

\* what the rows hold besides their urls when the audits start: one shop
\* with nothing known but its domain, one with a name and two contacts
StoreSeeds ==
    << [name |-> "", domain |-> "a.myshopify.com", status |-> "new"] @@ Blank,
       [name |-> "Brand", domain |-> "", status |-> "new"]
           @@ [Blank EXCEPT !.phone = "phone-old", !.instagram = "ig-old"] >>

\* get_object_or_404(Store, pk=pk) / a row of a queryset: the row as an object
LoadStore(pk) == [pk |-> pk] @@ stores[pk]

\* Store.objects.filter(status=NEW), in Meta.ordering (newest first)
RECURSIVE NewStores(_)
NewStores(pks) ==
    IF pks = {} THEN <<>>
    ELSE LET last == CHOOSE pk \in pks : \A other \in pks : other <= pk
         IN  (IF stores[last].status = "new" THEN <<LoadStore(last)>> ELSE <<>>)
                 \o NewStores(pks \ {last})

\* the result dict of a run that passed verification (shopify_complete.main)
Scraped(title, found, score, priority) ==
    [success |-> TRUE, error |-> "", lead_score |-> score, lead_priority |-> priority,
     store_title |-> title] @@ found

\* a run that found a title and four of the nine contacts
ResultOk ==
    Scraped("Shop",
            [Blank EXCEPT !.email = "new-email", !.phone = "new-phone",
                          !.instagram = "new-ig", !.facebook = "new-fb"],
            72, "WARM")

ResultNotShopify ==
    [success |-> FALSE, error |-> "Non sembra uno store Shopify attivo",
     lead_score |-> 0, lead_priority |-> "", store_title |-> ""] @@ Blank

LogLine(msg, mentions_error) ==
    [tag |-> "[analyzer]", msg |-> <<msg>>, mentions_error |-> mentions_error]
ResultLine(data) == [tag |-> "RESULT_JSON:", data |-> data]

\* what subprocess.run gives: TimeoutExpired, or the child's output
AuditorRuns ==
    { [timeout |-> TRUE, stdout |-> <<>>, stderr |-> ""],
      [timeout |-> FALSE, stdout |-> <<LogLine("Verifica Shopify...", FALSE)>>,
       stderr |-> "Traceback"],
      [timeout |-> FALSE, stdout |-> <<ResultLine(ResultNotShopify)>>, stderr |-> ""] }
    \cup { [timeout |-> FALSE,
            stdout |-> <<LogLine("Verifica Shopify...", FALSE), ResultLine(ResultOk)>>,
            stderr |-> ""] }

\* the loop over proc.stdout.splitlines(): the last RESULT_JSON line, parsed
RECURSIVE result_data(_)
result_data(stdout) ==
    IF stdout = <<>> THEN None
    ELSE IF stdout[Len(stdout)].tag = "RESULT_JSON:" THEN Some(stdout[Len(stdout)].data)
    ELSE result_data(SubSeq(stdout, 1, Len(stdout) - 1))

\* ... and the [analyzer] lines, each to be logged
IsLogLine(line) == line.tag = "[analyzer]"
LogLines(stdout) == SelectSeq(stdout, IsLogLine)

\* variant: every field the result has a value for, blank on the object or not
updated_fields_overwriting(store, data) ==
    {"status"}
        \cup {f \in ContactFields : data[f] # ""}
        \cup (IF data.store_title # "" THEN {"name"} ELSE {})

\* the fields run_analysis sets on the Store object: status, each contact
\* field the object has blank and the result has not, and the name likewise
updated_fields(store, data) ==
    {"status"}
        \cup {f \in ContactFields : data[f] # "" /\ store[f] = ""}
        \cup (IF data.store_title # "" /\ store.name = "" THEN {"name"} ELSE {})

UpdatedStore(store, data) ==
    [f \in DOMAIN store |->
        IF f = "status" THEN "analyzed"
        ELSE IF f = "name" /\ f \in updated_fields(store, data) THEN data.store_title
        ELSE IF f \in updated_fields(store, data) THEN data[f]
        ELSE store[f]]

\* store.save(update_fields=...): the row takes the named fields of the object
save(row, store, fields) ==
    [f \in DOMAIN row |-> IF f \in fields THEN store[f] ELSE row[f]]

\* StoreAnalysis.objects.create(store=store, ..., raw_json=result_data)
NewAnalysis(store, data) ==
    [store |-> store.pk, lead_score |-> data.lead_score,
     lead_priority |-> data.lead_priority, store_title |-> data.store_title,
     raw_json |-> data]

\* name = store.name or store.domain or store.url
DisplayName(store) ==
    IF store.name # "" THEN store.name
    ELSE IF store.domain # "" THEN store.domain
    ELSE store.url

----------------------------------------------------------------------------
(* The audit triggers (analyzer/views.py) and the background threads       *)
(* (analyzer/services.py).  Process p serves job p: first the request      *)
(* that creates the job, then the thread the request starts.  A call of    *)
(* job_manager is one step that needs _lock free (it takes the lock, runs  *)
(* the body and releases); under SpecLock the taking of the lock may also  *)
(* be a step of its own (Acquire), the rest of the call another.           *)

MaxJobs == 1

DefaultMaxJobs == 50

NewProc(kind, store, total) ==
    [pc |-> "create_job", kind |-> kind, total |-> total,
     store |-> store,            \* the Store object being audited
     name |-> "",                \* its display name, taken before the audit
     queue |-> <<>>,             \* bulk: the Store objects still to audit
     lines |-> <<>>,             \* run_analysis: [analyzer] lines still to log
     data |-> None,              \* run_analysis: result_data
     failure |-> None,           \* run_analysis: the failure to log and return
     analysis |-> None,          \* run_analysis: pk of the row it created
     result |-> None,            \* what run_analysis returned
     before |-> None,            \* history: the store's row when the audit began
     supplied |-> <<>>,          \* history: the urls of list(stores_qs), in order
     returned |-> <<>>,          \* history: success of each run_analysis so far
     child |-> "none"]           \* history: the Auditor subprocess of this audit

At(p, pc) == p \in DOMAIN procs /\ procs[p].pc = pc

LockedSites ==
    {"create_job", "log_bulk_start", "set_current", "log_item", "ra_log_start",
     "ra_forward", "ra_log_done", "ra_log_fail", "mark", "complete", "fail",
     "log_bulk_done", "cleanup"}

\* who holds _lock: the thread of process p, or a request for job j's status
Thread(p) == <<"thread", p>>
StatusRequest(j) == <<"job_status_api", j>>

\* with _lock: (entering)
Acquire(p) ==
    /\ p \in DOMAIN procs
    /\ procs[p].pc \in LockedSites
    /\ lock = None
    /\ lock' = Thread(p)
    /\ UNCHANGED <<batch, jobs, heap, clock, nextId, snap, lifecycle, ncalls,
                   stores, analyses, procs>>

\* with _lock: (entering unless p is in already, the body, leaving)
Locked(p, site, R, proc) ==
    /\ At(p, site)
    /\ lock \in {None, Thread(p)}
    /\ jobs' = R.jobs
    /\ heap' = R.heap
    /\ lock' = None
    /\ procs' = [procs EXCEPT ![p] = proc]
    /\ UNCHANGED <<batch, nextId, snap, lifecycle, ncalls, stores, analyses>>

\* a step of p that touches neither the registry nor the database
Local(p, proc) ==
    /\ procs' = [procs EXCEPT ![p] = proc]
    /\ UNCHANGED <<batch, jobs, heap, lock, clock, nextId, snap, lifecycle, ncalls,
                   stores, analyses>>

Spawn(proc) ==
    /\ nextId < MaxJobs
    /\ nextId' = nextId + 1
    /\ procs' = (nextId + 1 :> proc) @@ procs
    /\ UNCHANGED <<batch, jobs, heap, lock, clock, snap, lifecycle, ncalls, stores, analyses>>

\* views.analyze_store, to the call of create_job
analyze_store ==
    \E pk \in DOMAIN stores : Spawn(NewProc("single", Some(LoadStore(pk)), 1))

\* views.analyze_all, to the call of create_job
analyze_all ==
    LET total == Len(NewStores(DOMAIN stores))
    IN  /\ total # 0
        /\ Spawn(NewProc("bulk", None, total))

\* job_manager.create_job, called by either view
view_create_job(p) ==
    /\ clock' = clock + 1
    /\ Locked(p, "create_job",
              create_job(Reg, p, procs[p].kind, procs[p].total, clock'),
              [procs[p] EXCEPT !.pc = IF procs[p].kind = "single" THEN "store_pk"
                                        ELSE "list"])

\* analyze_store: job = job_manager._jobs.get(job_id); job['store_pk'] = store.pk
\* and the start of the thread
view_store_pk(p) ==
    /\ At(p, "store_pk")
    /\ jobs' = IF p \in DOMAIN jobs
               THEN [jobs EXCEPT ![p].store_pk = Some(procs[p].store[1].pk)]
               ELSE jobs
    /\ procs' = [procs EXCEPT ![p].pc = "set_current"]
    /\ UNCHANGED <<batch, heap, lock, clock, nextId, snap, lifecycle, ncalls, stores, analyses>>

\* variant: the loop takes the stores from the end of the list
NextStore_from_end(proc) ==
    IF proc.queue = <<>>
    THEN [proc EXCEPT !.pc = "complete", !.store = None]
    ELSE [proc EXCEPT !.pc = "set_current",
                      !.store = Some(proc.queue[Len(proc.queue)]),
                      !.queue = SubSeq(proc.queue, 1, Len(proc.queue) - 1)]

\* the bulk loop: the next store, or the end of the loop
NextStore(proc) ==
    IF proc.queue = <<>>
    THEN [proc EXCEPT !.pc = "complete", !.store = None]
    ELSE [proc EXCEPT !.pc = "set_current", !.store = Some(Head(proc.queue)),
                      !.queue = Tail(proc.queue)]

\* run_bulk_analysis_thread: stores = list(stores_qs)
bulk_list(p) ==
    /\ At(p, "list")
    /\ Local(p, [procs[p] EXCEPT
                    !.pc = "log_bulk_start",
                    !.queue = NewStores(DOMAIN stores),
                    !.supplied = [i \in 1..Len(NewStores(DOMAIN stores)) |->
                                     NewStores(DOMAIN stores)[i].url]])

bulk_log_start(p) ==
    /\ UNCHANGED clock
    /\ Locked(p, "log_bulk_start",
              add_log(Reg, p, <<"Avvio analisi bulk: ", ToString(Len(procs[p].queue))>>,
                      "info", clock),
              NextStore(procs[p]))

\* both threads: job_manager.set_current(job_id, store.url, name)
thread_set_current(p) ==
    /\ UNCHANGED clock
    /\ Locked(p, "set_current",
              set_current(Reg, p, procs[p].store[1].url, DisplayName(procs[p].store[1])),
              [procs[p] EXCEPT !.pc = "log_item",
                               !.name = DisplayName(procs[p].store[1])])

\* both threads: the log line before run_analysis
thread_log_item(p) ==
    /\ UNCHANGED clock
    /\ Locked(p, "log_item",
              add_log(Reg, p,
                      IF procs[p].kind = "single"
                      THEN <<"Analisi store: ", procs[p].name>>
                      ELSE <<"-> ", procs[p].name, procs[p].store[1].url>>,
                      "info", clock),
              [procs[p] EXCEPT !.pc = "ra_setup", !.lines = <<>>, !.data = None,
                               !.failure = None, !.analysis = None, !.result = None,
                               !.before = Some(stores[procs[p].store[1].pk]),
                               !.child = "none"])

----------------------------------------------------------------------------
(* services.run_analysis(store, job_id), as run by process p *)

Failure(msg, level, error) == Some([msg |-> msg, level |-> level, error |-> error])

\* after the loop over the output lines: no RESULT_JSON line, a result that
\* reports failure, or on to the database
Verdict(data, stderr) ==
    IF data = None
    THEN LET err == IF stderr # "" THEN stderr ELSE "Nessun output JSON trovato"
         IN  Failure(<<"Analisi fallita: ", err>>, "error", err)
    ELSE IF ~data[1].success
    THEN Failure(<<"Store non valido: ", data[1].error>>, "warn", data[1].error)
    ELSE None

AfterLines(proc) ==
    IF proc.lines # <<>> THEN "ra_forward"
    ELSE IF proc.failure # None THEN "ra_log_fail"
    ELSE "ra_create"

\* output_dir.mkdir(...), outside the try; then the script_path.exists() test
ra_setup(p) ==
    /\ At(p, "ra_setup")
    /\ \E found \in {"mkdir raises", "no script", "script"} :
          Local(p, IF found = "mkdir raises"
                   THEN [procs[p] EXCEPT !.pc = "raised"]
                   ELSE IF found = "no script"
                   THEN [procs[p] EXCEPT
                            !.pc = "ra_log_fail",
                            !.failure = Failure(<<"Script non trovato">>, "error",
                                                "Script non trovato")]
                   ELSE [procs[p] EXCEPT !.pc = "ra_log_start"])

ra_log_start(p) ==
    /\ UNCHANGED clock
    /\ Locked(p, "ra_log_start",
              add_log(Reg, p, <<"Avvio analisi: ", procs[p].store[1].url>>, "info", clock),
              [procs[p] EXCEPT !.pc = "ra_run", !.child = "running"])

\* subprocess.run(cmd, capture_output=True, timeout=120): the call returns
\* (or raises TimeoutExpired) once the child is over, with all of its
\* output; then the parse of that output
ra_run(p) ==
    /\ At(p, "ra_run")
    /\ \E run \in AuditorRuns :
          Local(p, IF run.timeout
                   THEN [procs[p] EXCEPT
                            !.pc = "ra_log_fail",
                            !.child = "killed",
                            !.failure = Failure(<<"Timeout - analisi oltre 2 minuti">>, "error",
                                                "Timeout - analisi oltre 2 minuti")]
                   ELSE LET parsed == [procs[p] EXCEPT
                                          !.child = "exited",
                                          !.lines = LogLines(run.stdout),
                                          !.data = result_data(run.stdout),
                                          !.failure = Verdict(result_data(run.stdout),
                                                              run.stderr)]
                        IN  [parsed EXCEPT !.pc = AfterLines(parsed)])

\* log(msg, level) of one [analyzer] line
ra_forward(p) ==
    /\ UNCHANGED clock
    /\ LET line == Head(procs[p].lines)
           rest == [procs[p] EXCEPT !.lines = Tail(@)]
       IN  Locked(p, "ra_forward",
                  add_log(Reg, p, line.msg,
                          IF line.mentions_error THEN "error" ELSE "info", clock),
                  [rest EXCEPT !.pc = AfterLines(rest)])

DbError == Failure(<<"Eccezione: ", "database error">>, "error", "database error")

\* StoreAnalysis.objects.create(...): the row is written, or the call raises
ra_create(p) ==
    /\ At(p, "ra_create")
    /\ \E raises \in BOOLEAN :
          IF raises
          THEN Local(p, [procs[p] EXCEPT !.pc = "ra_log_fail", !.failure = DbError])
          ELSE /\ analyses' = Append(analyses,
                                     NewAnalysis(procs[p].store[1], procs[p].data[1]))
               /\ procs' = [procs EXCEPT ![p].pc = "ra_save",
                                         ![p].analysis = Some(Len(analyses) + 1)]
               /\ UNCHANGED <<batch, jobs, heap, lock, clock, nextId, snap, lifecycle,
                              ncalls, stores>>

\* the update of the Store object and store.save(update_fields=...): the
\* row is written, or the call raises
ra_save(p) ==
    /\ At(p, "ra_save")
    /\ LET store   == procs[p].store[1]
           data    == procs[p].data[1]
           updated == UpdatedStore(store, data)
       IN  \E raises \in BOOLEAN :
              IF raises
              THEN Local(p, [procs[p] EXCEPT !.pc = "ra_log_fail", !.failure = DbError,
                                             !.store = Some(updated)])
              ELSE /\ stores' = [stores EXCEPT ![store.pk] =
                                    save(@, updated, updated_fields(store, data))]
                   /\ procs' = [procs EXCEPT ![p].pc = "ra_log_done",
                                             ![p].store = Some(updated)]
                   /\ UNCHANGED <<batch, jobs, heap, lock, clock, nextId, snap, lifecycle,
                                  ncalls, analyses>>

\* the last log line, and return {'success': True, 'analysis': ..., 'store': ...}
ra_log_done(p) ==
    /\ UNCHANGED clock
    /\ Locked(p, "ra_log_done",
              add_log(Reg, p, <<"Completato - Score: ",
                                ToString(procs[p].data[1].lead_score),
                                procs[p].data[1].lead_priority>>, "success", clock),
              [procs[p] EXCEPT !.pc = "mark",
                               !.returned = Append(@, TRUE),
                               !.result = Some([success |-> TRUE, error |-> "",
                                                analysis |-> procs[p].analysis])])

\* the log line of a failure, and return {'success': False, 'error': err}
ra_log_fail(p) ==
    /\ UNCHANGED clock
    /\ Locked(p, "ra_log_fail",
              add_log(Reg, p, procs[p].failure[1].msg, procs[p].failure[1].level, clock),
              [procs[p] EXCEPT !.pc = "mark",
                               !.returned = Append(@, FALSE),
                               !.result = Some([success |-> FALSE,
                                                error |-> procs[p].failure[1].error,
                                                analysis |-> None])])

----------------------------------------------------------------------------
(* run_single_analysis_thread / run_bulk_analysis_thread, after run_analysis *)

\* job_manager.mark_store_done(...) with the outcome of run_analysis
thread_mark(p) ==
    /\ UNCHANGED clock
    /\ LET proc   == procs[p]
           result == proc.result[1]
           R == IF result.success
                THEN mark_store_done(Reg, p, proc.store[1].url, proc.name, TRUE,
                                     analyses[result.analysis[1]].lead_score,
                                     analyses[result.analysis[1]].lead_priority, "")
                ELSE mark_store_done(Reg, p, proc.store[1].url, proc.name, FALSE,
                                     0, "", result.error)
       IN  Locked(p, "mark", R,
                  IF proc.kind = "bulk" THEN NextStore(proc)
                  ELSE [proc EXCEPT !.pc = IF result.success THEN "complete" ELSE "fail"])

\* variant: the single thread goes on to fail_job after complete_job
thread_complete_then_fail(p) ==
    /\ UNCHANGED clock
    /\ Locked(p, "complete",
              complete_job(Reg, p,
                           IF procs[p].kind = "single" THEN procs[p].result[1].analysis
                           ELSE None,
                           clock),
              [procs[p] EXCEPT !.pc = IF procs[p].kind = "single" THEN "fail"
                                      ELSE "log_bulk_done"])

\* single: job_manager.complete_job(job_id, analysis_pk=analysis.pk)
\* bulk:   job_manager.complete_job(job_id)
thread_complete(p) ==
    /\ UNCHANGED clock
    /\ Locked(p, "complete",
              complete_job(Reg, p,
                           IF procs[p].kind = "single" THEN procs[p].result[1].analysis
                           ELSE None,
                           clock),
              [procs[p] EXCEPT !.pc = IF procs[p].kind = "single" THEN "done"
                                      ELSE "log_bulk_done"])

\* single: job_manager.fail_job(job_id, result['error'])
single_fail(p) ==
    /\ UNCHANGED clock
    /\ Locked(p, "fail", fail_job(Reg, p, procs[p].result[1].error, clock),
              [procs[p] EXCEPT !.pc = "done"])

bulk_log_done(p) ==
    /\ UNCHANGED clock
    /\ Locked(p, "log_bulk_done",
              add_log(Reg, p, <<"Analisi bulk completata.">>, "success", clock),
              [procs[p] EXCEPT !.pc = "cleanup"])

\* bulk: job_manager.cleanup_old_jobs()
bulk_cleanup(p) ==
    /\ UNCHANGED clock
    /\ Locked(p, "cleanup", cleanup_old_jobs(Reg, DefaultMaxJobs),
              [procs[p] EXCEPT !.pc = "done"])

Step(p) ==
    \/ view_create_job(p)
    \/ view_store_pk(p)
    \/ bulk_list(p)
    \/ bulk_log_start(p)
    \/ thread_set_current(p)
    \/ thread_log_item(p)
    \/ ra_setup(p)
    \/ ra_log_start(p)
    \/ ra_run(p)
    \/ ra_forward(p)
    \/ ra_create(p)
    \/ ra_save(p)
    \/ ra_log_done(p)
    \/ ra_log_fail(p)
    \/ thread_mark(p)
    \/ thread_complete(p)
    \/ single_fail(p)
    \/ bulk_log_done(p)
    \/ bulk_cleanup(p)

Init ==
    /\ jobs = <<>>
    /\ heap = <<>>
    /\ lock = None
    /\ clock = MicrosPerSecond - 1
    /\ nextId = 0
    /\ snap = None
    /\ lifecycle = <<>>
    /\ ncalls = 0
    /\ stores = [pk \in DOMAIN StoreUrls |-> [url |-> StoreUrls[pk]] @@ StoreSeeds[pk]]
    /\ analyses = <<>>
    /\ procs = <<>>
    /\ import_result = None
    /\ auditor = None
    /\ scraper = None

Next ==
    \/ analyze_store
    \/ analyze_all
    \/ \E p \in DOMAIN procs : Step(p)

Spec == Init /\ [][Next]_vars

\* the registry after DefaultMaxJobs single audits of the first store, one
\* a second, that the Auditor refused each time: the jobs that
\* run_single_analysis_thread left, all in ERROR
PastAudits ==
    LET url  == StoreUrls[1]
        name == StoreSeeds[1].domain
        err  == ResultNotShopify.error
        ids  == (1 - DefaultMaxJobs)..0
        at(job_id) == (job_id + DefaultMaxJobs) * MicrosPerSecond
    IN  [jobs |-> [job_id \in ids |->
                     [id |-> job_id, type |-> "single", status |-> "error", total |-> 1,
                      completed |-> 1, success |-> 0, errors |-> 1,
                      current_url |-> Some(url), current_name |-> Some(name),
                      logs |-> [i \in 1..4 |-> LogRef(job_id, i)],
                      results |-> <<ResultRef(job_id, 1)>>,
                      started_at |-> isoformat(at(job_id)),
                      finished_at |-> Some(isoformat(at(job_id))),
                      store_pk |-> Some(1), analysis_pk |-> None]],
         heap |-> [ref \in {LogRef(job_id, i) : job_id \in ids, i \in 1..4}
                               \cup {ResultRef(job_id, 1) : job_id \in ids} |->
                     IF ref[2] = "results"
                     THEN [url |-> url, name |-> name, success |-> FALSE, score |-> 0,
                           priority |-> "", error |-> err]
                     ELSE [time |-> strftime(at(ref[1])),
                           level |-> IF ref[3] = 3 THEN "warn"
                                     ELSE IF ref[3] = 4 THEN "error" ELSE "info",
                           msg |-> IF ref[3] = 1 THEN <<"Analisi store: ", name>>
                                   ELSE IF ref[3] = 2 THEN <<"Avvio analisi: ", url>>
                                   ELSE IF ref[3] = 3 THEN <<"Store non valido: ", err>>
                                   ELSE <<"Errore fatale: ", err>>]]]

InitRetention ==
    /\ jobs = PastAudits.jobs
    /\ heap = PastAudits.heap
    /\ lock = None
    /\ clock = (DefaultMaxJobs + 1) * MicrosPerSecond - 1
    /\ nextId = 0
    /\ snap = None
    /\ lifecycle = <<>>
    /\ ncalls = 0
    /\ stores = [pk \in DOMAIN StoreUrls |-> [url |-> StoreUrls[pk]] @@ StoreSeeds[pk]]
    /\ analyses = <<>>
    /\ procs = <<>>
    /\ import_result = None
    /\ auditor = None
    /\ scraper = None

SpecRetention == InitRetention /\ [][Next]_vars

\* views.job_status_api, as far as the registry goes: job_manager.get_job,
\* entering the lock in one step and copying the job in the next
status_enter ==
    /\ lock = None
    /\ \E j \in KnownIds : lock' = StatusRequest(j)
    /\ UNCHANGED <<batch, jobs, heap, clock, nextId, snap, lifecycle, ncalls,
                   stores, analyses, procs>>

status_get_job ==
    /\ \E j \in KnownIds :
          /\ lock = StatusRequest(j)
          /\ snap' = get_job(Reg, j)
    /\ lock' = None
    /\ UNCHANGED <<batch, jobs, heap, clock, nextId, lifecycle, ncalls, stores, analyses, procs>>

\* variant: any job that is no longer running is given a redirect
redirect_url_when_finished(job) ==
    IF job.status # "running"
    THEN IF job.type = "single" /\ TruthyInt(job.analysis_pk)
         THEN Some(<<"/analyzer/report/", ToString(job.analysis_pk[1]), "/">>)
         ELSE IF job.type = "single" /\ TruthyInt(job.store_pk)
         THEN Some(<<"/stores/", ToString(job.store_pk[1]), "/">>)
         ELSE Some(<<"/stores/">>)
    ELSE None

\* views.job_status_api: the redirect of a job
redirect_url(job) ==
    IF job.status = "completed"
    THEN IF job.type = "single" /\ TruthyInt(job.analysis_pk)
         THEN Some(<<"/analyzer/report/", ToString(job.analysis_pk[1]), "/">>)
         ELSE IF job.type = "single" /\ TruthyInt(job.store_pk)
         THEN Some(<<"/stores/", ToString(job.store_pk[1]), "/">>)
         ELSE Some(<<"/stores/">>)
    ELSE None

\* views.job_status_api: the JSON answer to a poll of job_id, from the copy
\* get_job returns
job_status_api(R, job_id) ==
    LET job == get_job(R, job_id)
    IN  IF job = None THEN [http |-> 404, error |-> "Job non trovato"]
        ELSE [http |-> 200, status |-> job[1].status, type |-> job[1].type,
              total |-> job[1].total, completed |-> job[1].completed,
              success |-> job[1].success, errors |-> job[1].errors,
              current_url |-> job[1].current_url, current_name |-> job[1].current_name,
              logs |-> SubSeq(job[1].logs,
                              IF Len(job[1].logs) > 50 THEN Len(job[1].logs) - 49 ELSE 1,
                              Len(job[1].logs)),
              results |-> job[1].results,
              redirect_url |-> redirect_url(job[1]),
              finished_at |-> job[1].finished_at]

NextLock ==
    \/ Next
    \/ \E p \in DOMAIN procs : Acquire(p)
    \/ status_enter
    \/ status_get_job

SpecLock == Init /\ [][NextLock]_vars

----------------------------------------------------------------------------
(* The import of stores (stores/services.py, stores/views.py).  A text is  *)
(* a sequence of pieces: single characters, and the pieces the pattern of  *)
(* parse_urls_from_text fixes in lower case ("https://", ".myshopify.com") *)

MaxUrls == 2

\* str.lower() and str.upper() of one character; the letters are S and B
LowerChar(c) == IF c = "S" THEN "s" ELSE IF c = "B" THEN "b" ELSE c
UpperChar(c) == IF c = "s" THEN "S" ELSE IF c = "b" THEN "B" ELSE c

lower(text) == [i \in DOMAIN text |-> LowerChar(text[i])]

\* str.title(): each letter that follows a non-letter in upper case, every
\* other letter in lower case
RECURSIVE title(_, _)
title(text, follows_letter) ==
    IF text = <<>> THEN <<>>
    ELSE LET c == Head(text)
         IN  IF LowerChar(c) # c \/ UpperChar(c) # c
             THEN <<IF follows_letter THEN LowerChar(c) ELSE UpperChar(c)>>
                      \o title(Tail(text), TRUE)
             ELSE <<c>> \o title(Tail(text), FALSE)

Schemes == {"https://", "http://"}

\* the length of the longest prefix of text holding no piece of stops
RECURSIVE Before(_, _)
Before(text, stops) ==
    IF text = <<>> \/ Head(text) \in stops THEN 0
    ELSE 1 + Before(Tail(text), stops)

\* urlparse(url).netloc: what follows the scheme, up to the first / ? or #
netloc(url) ==
    LET rest == IF url # <<>> /\ Head(url) \in Schemes THEN Tail(url) ELSE <<>>
    IN  SubSeq(rest, 1, Before(rest, {"/", "?", "#"}))

\* f"{parsed.scheme}://{parsed.netloc}"
base(url) ==
    (IF url # <<>> /\ Head(url) \in Schemes THEN <<Head(url)>> ELSE <<"://">>)
        \o netloc(url)

\* the loop of parse_urls_from_text over found, the matches of the pattern:
\* the base of each, once
RECURSIVE cleaned(_, _)
cleaned(found, seen) ==
    IF found = <<>> THEN <<>>
    ELSE IF base(Head(found)) \in seen THEN cleaned(Tail(found), seen)
    ELSE <<base(Head(found))>> \o cleaned(Tail(found), seen \cup {base(Head(found))})

parse_urls_from_text(found) == cleaned(found, {})

\* variant: the host keeps its case
normalize_url_keeping_case(url) ==
    LET full == IF url # <<>> /\ Head(url) \in Schemes THEN url ELSE <<"https://">> \o url
    IN  <<Head(full)>> \o netloc(full)

\* strip() finds nothing to remove in a match of the pattern
normalize_url(url) ==
    LET full == IF url # <<>> /\ Head(url) \in Schemes THEN url ELSE <<"https://">> \o url
    IN  <<Head(full)>> \o lower(netloc(full))

extract_domain(url) == lower(netloc(url))

extract_name_from_url(url) ==
    LET subdomain == SubSeq(netloc(url), 1, Before(netloc(url), {".", ".myshopify.com"}))
    IN  title([i \in DOMAIN subdomain |->
                  IF subdomain[i] \in {"-", "_"} THEN " " ELSE subdomain[i]], FALSE)

\* variant: Store.objects.update_or_create, which writes defaults to the row
\* it finds
update_or_create(table, url, defaults) ==
    IF \E pk \in DOMAIN table : table[pk].url = url
    THEN LET pk == CHOOSE k \in DOMAIN table : table[k].url = url
         IN  [table |-> [table EXCEPT ![pk] = defaults @@ @],
              created |-> FALSE, pk |-> pk]
    ELSE [table |-> Append(table, [url |-> url] @@ defaults @@ Blank),
          created |-> TRUE, pk |-> Len(table) + 1]

\* Store.objects.get_or_create(url=url, defaults=...): the row with that
\* url, or a new row; every field not in defaults takes the model's default
get_or_create(table, url, defaults) ==
    IF \E pk \in DOMAIN table : table[pk].url = url
    THEN [table |-> table, created |-> FALSE,
          pk |-> CHOOSE pk \in DOMAIN table : table[pk].url = url]
    ELSE [table |-> Append(table, [url |-> url] @@ defaults @@ Blank),
          created |-> TRUE, pk |-> Len(table) + 1]

\* one turn of the loop of import_stores_from_content; raises: whether the
\* database call fails
import_one(R, raw_url, niche, source_label, raises) ==
    IF raises
    THEN [R EXCEPT !.errors = Append(@, [url |-> raw_url, error |-> "database error"])]
    ELSE LET url == normalize_url(raw_url)
             got == get_or_create(R.stores, url,
                        [domain |-> extract_domain(url),
                         name   |-> extract_name_from_url(url),
                         niche  |-> niche,
                         status |-> "new",
                         notes  |-> IF source_label # ""
                                    THEN <<"Importato da: ", source_label>> ELSE <<>>])
         IN  IF got.created
             THEN [R EXCEPT !.stores = got.table, !.imported = Append(@, got.pk)]
             ELSE [R EXCEPT !.stores = got.table, !.skipped = Append(@, url)]

RECURSIVE import_loop(_, _, _, _, _, _)
import_loop(R, urls, i, niche, source_label, faults) ==
    IF i > Len(urls) THEN R
    ELSE import_loop(import_one(R, urls[i], niche, source_label, i \in faults),
                     urls, i + 1, niche, source_label, faults)

\* import_stores_from_content(content, niche, source_label) over the table;
\* faults: the turns of the loop in which the database call fails
import_stores_from_content(table, found, niche, source_label, faults) ==
    LET urls == parse_urls_from_text(found)
    IN  import_loop([stores |-> table, imported |-> <<>>, skipped |-> <<>>,
                     errors |-> <<>>, total_found |-> Len(urls)],
                    urls, 1, niche, source_label, faults)

\* the matches an uploaded text may hold: two spellings of one host, with
\* and without a trailing slash, and another host with a path
RawUrls ==
    { <<"https://", "S", "-", "b", ".myshopify.com", "/">>,
      <<"https://", "s", "-", "b", ".myshopify.com">>,
      <<"https://", "b", ".myshopify.com", "/", "p">> }

Contents == UNION {[1..n -> RawUrls] : n \in 1..MaxUrls}
Niches == {"altro", "moda"}
SourceLabels == {"", "Import Manuale"}

\* views.import_stores: a valid POST with some content
import_stores ==
    /\ \E found \in Contents, niche \in Niches, source_label \in {""},
          faults \in SUBSET (1..1) :
          \E result \in {import_stores_from_content(
                              stores, found, niche,
                              IF source_label # "" THEN source_label ELSE "Import Manuale",
                              faults)} :
              /\ stores' = result.stores
              /\ import_result' =
                    Some([imported |-> [i \in DOMAIN result.imported |->
                                     result.stores[result.imported[i]].url],
                          skipped |-> result.skipped, errors |-> result.errors,
                          total_found |-> result.total_found])
    /\ UNCHANGED <<jobs, heap, lock, clock, nextId, snap, lifecycle, ncalls,
                   analyses, procs, auditor, scraper>>

\* Store.Status.choices
StatusChoices == {"new", "analyzed", "contacted", "replied", "converted", "rejected", "skip"}

\* what a POST to change_status may carry as status: a value, a label, nothing
Submitted == {"contacted", "Contattato", ""}

\* variant: the submitted status is stored as it comes
change_status_post_unchecked(table, pk, new_status) ==
    [table EXCEPT ![pk].status = new_status]

\* views.change_status, a POST for the store pk: the table after it
change_status_post(table, pk, new_status) ==
    IF new_status \in StatusChoices
    THEN [table EXCEPT ![pk].status = new_status]
    ELSE table

change_status ==
    /\ \E pk \in DOMAIN stores, new_status \in Submitted :
          stores' = change_status_post(stores, pk, new_status)
    /\ UNCHANGED <<jobs, heap, lock, clock, nextId, snap, lifecycle, ncalls,
                   analyses, procs, batch>>

InitImport ==
    /\ jobs = <<>>
    /\ heap = <<>>
    /\ lock = None
    /\ clock = MicrosPerSecond - 1
    /\ nextId = 0
    /\ snap = None
    /\ lifecycle = <<>>
    /\ ncalls = 0
    /\ stores = <<>>
    /\ analyses = <<>>
    /\ procs = <<>>
    /\ import_result = None
    /\ auditor = None
    /\ scraper = None

NextImport ==
    \/ import_stores
    \/ change_status

SpecImport == InitImport /\ [][NextImport]_vars

MaxAudits == 1

\* services.run_analysis on the store read from the table, from the result
\* of the Auditor to store.save: the analysis row and the update of the store
audit_store ==
    /\ Len(analyses) < MaxAudits
    /\ \E pk \in DOMAIN stores, data \in {ResultOk} :
          LET store == LoadStore(pk)
          IN  /\ analyses' = Append(analyses, NewAnalysis(store, data))
              /\ stores' = [stores EXCEPT ![pk] =
                               save(@, UpdatedStore(store, data),
                                    updated_fields(store, data))]
    /\ UNCHANGED <<jobs, heap, lock, clock, nextId, snap, lifecycle, ncalls,
                   procs, batch>>

NextStatus ==
    \/ import_stores
    \/ change_status
    \/ audit_store

SpecStatus == InitImport /\ [][NextStatus]_vars

----------------------------------------------------------------------------
(* The audit workflows with an operator at work on the store table while   *)
(* they run: status changes (stores/views.py) and edits in the admin       *)
(* (stores/admin.py)                                                       *)

\* StoreAdmin: the operator saves a store's form with an email typed in
admin_edit ==
    /\ \E pk \in DOMAIN stores :
          stores' = [stores EXCEPT ![pk].email = "op-email"]
    /\ UNCHANGED <<jobs, heap, lock, clock, nextId, snap, lifecycle, ncalls,
                   analyses, procs, batch>>

NextEdits ==
    \/ Next
    \/ change_status
    \/ admin_edit

SpecEdits == Init /\ [][NextEdits]_vars

----------------------------------------------------------------------------
(* The Auditor (scripts/shopify_complete.py): its scoring functions.  A    *)
(* value of the catalog's JSON is <<"number", n>>, <<"string", s>> or      *)
(* <<"null">>; prices are in cents, averages of images in tenths.          *)

MaxProducts == 2

\* the truth value Python gives a JSON value
truthy(x) ==
    \/ x[1] = "number" /\ x[2] # 0
    \/ x[1] = "string" /\ x[2] # ""

RECURSIVE Sum(_)
Sum(numbers) == IF numbers = <<>> THEN 0 ELSE Head(numbers) + Sum(Tail(numbers))

RECURSIVE Flat(_)
Flat(lists) == IF lists = <<>> THEN <<>> ELSE Head(lists) \o Flat(Tail(lists))

\* round(num / den): to the nearest whole, a half to the even one
round(num, den) ==
    LET q == num \div den
        r == num % den
    IN  IF 2 * r < den THEN q
        ELSE IF 2 * r > den THEN q + 1
        ELSE IF q % 2 = 0 THEN q ELSE q + 1

\* float(x) of a JSON value: the number, the number a string spells, or
\* None where Python raises TypeError (null) or ValueError
float(x) ==
    LET spelled == ("19.99" :> 1999) @@ ("120.00" :> 12000)
    IN  IF x[1] = "number" THEN Some(x[2])
        ELSE IF x[1] = "string" /\ x[2] \in DOMAIN spelled THEN Some(spelled[x[2]])
        ELSE None

\* analyze_products(products), without the categories and vendors; the
\* exception of float() is not caught
analyze_products(products) ==
    LET all == Flat([i \in DOMAIN products |->
                        [j \in DOMAIN products[i].variants |->
                            float(products[i].variants[j].price)]])
        prices == SelectSeq([i \in DOMAIN all |-> IF all[i] = None THEN 0 ELSE all[i][1]],
                            LAMBDA c : c > 0)
    IN  IF products = <<>>
        THEN [raised |-> FALSE, total_count |-> 0, price_min |-> 0, price_max |-> 0,
              price_avg |-> 0]
        ELSE IF \E i \in DOMAIN all : all[i] = None
        THEN [raised |-> TRUE]
        ELSE [raised |-> FALSE, total_count |-> Len(products),
              price_min |-> IF prices = <<>> THEN 0
                            ELSE CHOOSE c \in {prices[i] : i \in DOMAIN prices} :
                                     \A i \in DOMAIN prices : c <= prices[i],
              price_max |-> IF prices = <<>> THEN 0
                            ELSE CHOOSE c \in {prices[i] : i \in DOMAIN prices} :
                                     \A i \in DOMAIN prices : c >= prices[i],
              price_avg |-> IF prices = <<>> THEN 0 ELSE round(Sum(prices), Len(prices))]

\* analyze_product_images_fast(products); the comparison with 1000 raises
\* on a dimension that is a string
analyze_product_images_fast(products) ==
    LET imgs     == Flat([i \in DOMAIN products |-> products[i].images])
        single   == Cardinality({i \in DOMAIN products : Len(products[i].images) = 1})
        measured == {i \in DOMAIN imgs : truthy(imgs[i].width) /\ truthy(imgs[i].height)}
        low_res  == Cardinality({i \in measured :
                                    imgs[i].width[2] < 1000 \/ imgs[i].height[2] < 1000})
        no_alt   == Cardinality({i \in DOMAIN imgs : imgs[i].alt = ""})
        avg      == round(10 * Len(imgs), Len(products))
        issues   == (IF avg < 30 THEN <<"Media immagini per prodotto bassa">> ELSE <<>>)
                    \o (IF 10 * single > 3 * Len(products)
                        THEN <<"prodotti con 1 sola immagine">> ELSE <<>>)
                    \o (IF low_res > 0 THEN <<"immagini sotto 1000px">> ELSE <<>>)
                    \o (IF 2 * no_alt > Len(imgs)
                        THEN <<"immagini senza alt text (SEO)">> ELSE <<>>)
        score    == 100 - (IF avg < 30 THEN 30 ELSE 0)
                        - (IF 10 * single > 3 * Len(products) THEN 25 ELSE 0)
                        - (IF low_res > 0 THEN 20 ELSE 0)
                        - (IF 2 * no_alt > Len(imgs) THEN 15 ELSE 0)
    IN  IF products = <<>>
        THEN [raised |-> FALSE, quality_score |-> 0, total_images |-> 0,
              avg_per_product |-> 0, single_image_count |-> 0, low_res_count |-> 0,
              no_alt_count |-> 0, issues |-> <<"Nessun prodotto trovato">>]
        ELSE IF \E i \in measured :
                    \/ imgs[i].width[1] # "number"
                    \/ imgs[i].width[2] >= 1000 /\ imgs[i].height[1] # "number"
        THEN [raised |-> TRUE]
        ELSE [raised |-> FALSE,
              quality_score |-> IF score > 0 THEN score ELSE 0,
              total_images |-> Len(imgs), avg_per_product |-> avg,
              single_image_count |-> single, low_res_count |-> low_res,
              no_alt_count |-> no_alt,
              issues |-> IF issues # <<>> THEN issues ELSE <<"Nessun problema rilevato">>]

\* variant: HOT and WARM only above their thresholds
priority_above(score) ==
    IF score > 70 THEN <<"HOT", "ALTO">>
    ELSE IF score > 50 THEN <<"WARM", "MEDIO">>
    ELSE <<"COLD", "BASSO">>

\* calculate_lead_score: priority, potential of a total
priority(score) ==
    IF score >= 70 THEN <<"HOT", "ALTO">>
    ELSE IF score >= 50 THEN <<"WARM", "MEDIO">>
    ELSE <<"COLD", "BASSO">>

calculate_lead_score(contacts, products_info, img_quality, social) ==
    LET n     == products_info.total_count
        iq    == img_quality.quality_score
        avg_p == products_info.price_avg
        sc    == Cardinality({k \in DOMAIN social : social[k] # ""})
        breakdown ==
            [Email    |-> IF contacts.email # "" THEN 20 ELSE 0,
             Prodotti |-> IF n >= 50 THEN 15 ELSE IF n >= 20 THEN 10
                          ELSE IF n >= 10 THEN 5 ELSE 0,
             Immagini |-> IF iq < 50 THEN 35 ELSE IF iq < 70 THEN 20 ELSE 5,
             Prezzo   |-> IF avg_p >= 10000 THEN 15 ELSE IF avg_p >= 5000 THEN 10 ELSE 5,
             Social   |-> IF sc >= 3 THEN 15 ELSE IF sc >= 1 THEN 8 ELSE 0]
        score == breakdown.Email + breakdown.Prodotti + breakdown.Immagini
                     + breakdown.Prezzo + breakdown.Social
    IN  [total_score |-> score, priority |-> priority(score)[1],
         potential |-> priority(score)[2], breakdown |-> breakdown]

\* the inputs of calculate_lead_score, around each threshold
LeadInputs ==
    [contacts : [email : {"", "info@shop.it"}],
     products_info : [total_count : {0, 9, 10, 19, 20, 49, 50, 300},
                      price_avg : {0, 4999, 5000, 9999, 10000}],
     img_quality : [quality_score : {0, 10, 30, 45, 49, 50, 55, 69, 70, 75, 100}],
     social : [{"instagram", "facebook", "tiktok", "linkedin"} -> {"", "link"}]]

\* images of a catalog: large with alt text, narrow, without alt text, both
ImageKinds ==
    { [width |-> <<"number", w>>, height |-> <<"number", 2000>>, alt |-> alt] :
          w \in {500, 2000}, alt \in {"", "foto"} }

\* products with up to three images of one kind
Products ==
    { [images |-> [i \in 1..k |-> img], variants |-> <<>>] :
          k \in 0..3, img \in ImageKinds }

\* catalogs of up to MaxProducts such products, and one of 25 products, all
\* with three large images but the last, which has two
Catalogs ==
    UNION {[1..n -> Products] : n \in 1..MaxProducts}
        \cup { [i \in 1..25 |->
                   [images |-> [j \in 1..(IF i < 25 THEN 3 ELSE 2) |->
                                   [width |-> <<"number", 2000>>,
                                    height |-> <<"number", 2000>>, alt |-> "foto"]],
                    variants |-> <<>>]] }

\* a call of one of the two functions
Call(fn, args) == [fn |-> fn, args |-> args, returned |-> None]

call_returns ==
    /\ auditor # None
    /\ auditor.returned = None
    /\ auditor' =
          [auditor EXCEPT !.returned =
              Some(IF auditor.fn = "calculate_lead_score"
                   THEN calculate_lead_score(auditor.args.contacts,
                                             auditor.args.products_info,
                                             auditor.args.img_quality,
                                             auditor.args.social)
                   ELSE analyze_product_images_fast(auditor.args))]
    /\ UNCHANGED <<jobs, heap, lock, clock, nextId, snap, lifecycle, ncalls,
                   stores, analyses, procs, import_result, scraper>>

InitScoring ==
    /\ jobs = <<>>
    /\ heap = <<>>
    /\ lock = None
    /\ clock = MicrosPerSecond - 1
    /\ nextId = 0
    /\ snap = None
    /\ lifecycle = <<>>
    /\ ncalls = 0
    /\ stores = <<>>
    /\ analyses = <<>>
    /\ procs = <<>>
    /\ import_result = None
    /\ scraper = None
    /\ \/ \E args \in LeadInputs : auditor = Call("calculate_lead_score", args)
       \/ \E args \in Catalogs : auditor = Call("analyze_product_images_fast", args)

SpecScoring == InitScoring /\ [][call_returns]_vars

----------------------------------------------------------------------------
(* The Auditor: one run of main().  stdout is the sequence of the lines    *)
(* printed, <<"[analyzer]", message>> or <<"RESULT_JSON:", result>>;       *)
(* files are the files written into the output directory; pending are the  *)
(* images the worker pool has not finished.                                *)

MaxImages == 2

\* what GET <store>/products.json gives: no answer in time, another status
\* than 200, a body that is not JSON, JSON without 'products', or a catalog
Responses ==
    [kind : {"timeout", "status 404", "not json", "no products key"}, products : {<<>>}]
        \cup [kind : {"catalog"},
              products : {<<>>} \cup
                  { << [images |-> << [width |-> w, height |-> <<"number", 2000>>,
                                       alt |-> "foto"] >>,
                        variants |-> << [price |-> price] >>] >> :
                        w \in {<<"number", 2000>>, <<"null">>, <<"string", "big">>},
                        price \in {<<"number", 0>>, <<"string", "19.99">>,
                                   <<"string", "N/A">>, <<"null">>} }]

\* variant: any JSON answer with status 200 is taken for a catalog
verify_shopify_any_json(response) ==
    IF response.kind \in {"catalog", "no products key"}
    THEN [is_shopify |-> TRUE, products |-> response.products]
    ELSE [is_shopify |-> FALSE, products |-> <<>>]

verify_shopify(response) ==
    IF response.kind = "catalog"
    THEN [is_shopify |-> TRUE, products |-> response.products]
    ELSE [is_shopify |-> FALSE, products |-> <<>>]

log(run, msg) == [run EXCEPT !.stdout = Append(@, <<"[analyzer]", msg>>)]

\* lines 976-1011: the arguments, the output directory, the verification
main_verify ==
    /\ auditor # None
    /\ auditor.pc = "verify"
    /\ LET shopify == verify_shopify(auditor.response)
           logged  == log(log(auditor, "Analisi"), "Verifica Shopify...")
       IN  auditor' =
              IF ~shopify.is_shopify
              THEN [logged EXCEPT
                       !.stdout = Append(@, <<"RESULT_JSON:",
                                              [success |-> FALSE,
                                               error |-> "Non sembra uno store Shopify attivo"]>>),
                       !.exit = Some(1), !.pc = "exited"]
              ELSE [log(logged, "OK prodotti") EXCEPT
                       !.products = shopify.products, !.pc = "info"]
    /\ UNCHANGED <<jobs, heap, lock, clock, nextId, snap, lifecycle, ncalls,
                   stores, analyses, procs, import_result, scraper>>

\* lines 1013-1014: extract_basic_info gives {} when the request fails
main_info ==
    /\ auditor # None
    /\ auditor.pc = "info"
    /\ \E failed \in BOOLEAN :
          auditor' = [log(auditor, "Info store...") EXCEPT
                         !.stages = Append(@, "metadata"),
                         !.basic_info = IF failed THEN [title |-> ""]
                                        ELSE [title |-> "Shop"],
                         !.pc = "products"]
    /\ UNCHANGED <<jobs, heap, lock, clock, nextId, snap, lifecycle, ncalls,
                   stores, analyses, procs, import_result, scraper>>

\* lines 1016-1018: an exception of either function ends the process with
\* a traceback on stderr and exit status 1
main_products ==
    /\ auditor # None
    /\ auditor.pc = "products"
    /\ LET logged           == [log(auditor, "Analisi prodotti...") EXCEPT
                                   !.stages = Append(@, "products")]
           products_info    == analyze_products(auditor.products)
           img_quality_fast == analyze_product_images_fast(auditor.products)
       IN  auditor' =
              IF products_info.raised \/ img_quality_fast.raised
              THEN [logged EXCEPT !.exit = Some(1), !.pc = "exited"]
              ELSE [logged EXCEPT !.products_info = Some(products_info),
                                  !.img_quality_fast = Some(img_quality_fast),
                                  !.pc = "contacts"]
    /\ UNCHANGED <<jobs, heap, lock, clock, nextId, snap, lifecycle, ncalls,
                   stores, analyses, procs, import_result, scraper>>

\* lines 1020-1022: find_contact_page and extract_contacts catch the
\* failures of their requests
main_contacts ==
    /\ auditor # None
    /\ auditor.pc = "contacts"
    /\ \E email \in {"", "info@shop.it"} :
          auditor' = [log(auditor, "Estrazione contatti...") EXCEPT
                         !.stages = Append(@, "contacts"),
                         !.contacts = Some([email |-> email,
                                            social |-> [instagram |-> "", facebook |-> ""]]),
                         !.pc = "lead"]
    /\ UNCHANGED <<jobs, heap, lock, clock, nextId, snap, lifecycle, ncalls,
                   stores, analyses, procs, import_result, scraper>>

\* lines 1024-1027
main_lead ==
    /\ auditor # None
    /\ auditor.pc = "lead"
    /\ auditor' = [log(auditor, "Lead scoring...") EXCEPT
                      !.stages = Append(@, "lead"),
                      !.lead_score =
                          Some(calculate_lead_score(auditor.contacts[1],
                                                    auditor.products_info[1],
                                                    auditor.img_quality_fast[1],
                                                    auditor.contacts[1].social)),
                      !.pc = "images"]
    /\ UNCHANGED <<jobs, heap, lock, clock, nextId, snap, lifecycle, ncalls,
                   stores, analyses, procs, import_result, scraper>>

\* lines 1029-1031 and 523-527: the images are collected and every one is
\* submitted to the pool
main_images ==
    /\ auditor # None
    /\ auditor.pc = "images"
    /\ \E total \in 0..MaxImages :
          auditor' = [log(log(log(auditor, "Analisi immagini..."), "Totale immagini"),
                          "Analisi immagini con worker...") EXCEPT
                         !.stages = Append(@, "images"),
                         !.pending = 1..total,
                         !.pc = "pool"]
    /\ UNCHANGED <<jobs, heap, lock, clock, nextId, snap, lifecycle, ncalls,
                   stores, analyses, procs, import_result, scraper>>

\* a pool thread runs analyze_single_image for image idx; it logs a line
\* when cv2 is there and the download succeeded; what it raises is caught
\* at future.result()
analyze_single_image(idx) ==
    /\ auditor # None
    /\ auditor.pc \in {"pool", "exited"}
    /\ idx \in auditor.pending
    /\ \E outcome \in {"analyzed", "Download fallito", "raised"} :
          auditor' = [(IF auditor.HAS_CV2 /\ outcome = "analyzed"
                       THEN log(auditor, "Grade") ELSE auditor) EXCEPT
                         !.pending = @ \ {idx},
                         !.analyzed = IF outcome = "analyzed" THEN @ + 1 ELSE @]
    /\ UNCHANGED <<jobs, heap, lock, clock, nextId, snap, lifecycle, ncalls,
                   stores, analyses, procs, import_result, scraper>>

\* variant: the result is printed while pool threads may still run
main_result_without_join ==
    /\ auditor # None
    /\ auditor.pc = "pool"
    /\ auditor' = [log(auditor, "Completato") EXCEPT
                      !.stdout = Append(@, <<"RESULT_JSON:",
                                             [success |-> TRUE, report_file |-> "",
                                              lead_score |-> auditor.lead_score[1].total_score,
                                              product_count |->
                                                  auditor.products_info[1].total_count,
                                              img_analyzed_count |-> auditor.analyzed,
                                              store_title |-> auditor.basic_info.title]>>),
                      !.exit = Some(0), !.pc = "exited"]
    /\ UNCHANGED <<jobs, heap, lock, clock, nextId, snap, lifecycle, ncalls,
                   stores, analyses, procs, import_result, scraper>>

\* lines 528-536 and 1033-1089: leaving the with block waits for every pool
\* thread; then the result is built, with report_file '', and printed
main_result ==
    /\ auditor # None
    /\ auditor.pc = "pool"
    /\ auditor.pending = {}
    /\ auditor' = [log(auditor, "Completato") EXCEPT
                      !.stdout = Append(@, <<"RESULT_JSON:",
                                             [success |-> TRUE, report_file |-> "",
                                              lead_score |-> auditor.lead_score[1].total_score,
                                              product_count |->
                                                  auditor.products_info[1].total_count,
                                              img_analyzed_count |-> auditor.analyzed,
                                              store_title |-> auditor.basic_info.title]>>),
                      !.exit = Some(0), !.pc = "exited"]
    /\ UNCHANGED <<jobs, heap, lock, clock, nextId, snap, lifecycle, ncalls,
                   stores, analyses, procs, import_result, scraper>>

InitAuditor ==
    /\ jobs = <<>>
    /\ heap = <<>>
    /\ lock = None
    /\ clock = MicrosPerSecond - 1
    /\ nextId = 0
    /\ snap = None
    /\ lifecycle = <<>>
    /\ ncalls = 0
    /\ stores = <<>>
    /\ analyses = <<>>
    /\ procs = <<>>
    /\ import_result = None
    /\ scraper = None
    /\ \E response \in Responses, cv2 \in BOOLEAN :
          auditor = [pc |-> "verify", response |-> response, HAS_CV2 |-> cv2,
                     stdout |-> <<>>, exit |-> None, stages |-> <<>>, files |-> {},
                     pending |-> {}, analyzed |-> 0, products |-> <<>>,
                     basic_info |-> [title |-> ""], products_info |-> None,
                     img_quality_fast |-> None, contacts |-> None, lead_score |-> None]

NextAuditor ==
    \/ main_verify
    \/ main_info
    \/ main_products
    \/ main_contacts
    \/ main_lead
    \/ main_images
    \/ \E idx \in 1..MaxImages : analyze_single_image(idx)
    \/ main_result

SpecAuditor == InitAuditor /\ [][NextAuditor]_vars

----------------------------------------------------------------------------
(* The discovery scraper (scripts/selenium_extractor.py): one run of       *)
(* main().  The output file, once written, holds the urls of a set, one a  *)
(* line in sorted order, so it is kept as the set.                         *)

MaxQueries == 2

\* the clean urls a query's result pages can hold
FoundUrls == {"https://a.myshopify.com", "https://b.myshopify.com", "https://c.myshopify.com"}

\* save_results(urls, output_file): the file after the call
save_results(file, urls) == IF urls = {} THEN file ELSE Some(urls)

\* lines 171-198: without a driver the run exits with status 1
setup_driver ==
    /\ scraper # None
    /\ scraper.pc = "setup"
    /\ \E started \in BOOLEAN :
          scraper' = IF started
                     THEN [scraper EXCEPT !.browser = "open", !.pc = "queries"]
                     ELSE [scraper EXCEPT !.exit = Some(1), !.pc = "exited"]
    /\ UNCHANGED <<jobs, heap, lock, clock, nextId, snap, lifecycle, ncalls,
                   stores, analyses, procs, import_result, auditor>>

\* lines 203-213: the next query; search_google returns its urls, or the
\* user interrupts it, or an exception leaves it
search_google ==
    /\ scraper # None
    /\ scraper.pc = "queries"
    /\ scraper.i < scraper.queries
    /\ \/ \E urls \in SUBSET FoundUrls :
             scraper' = [scraper EXCEPT !.i = @ + 1, !.all_urls = @ \cup urls]
       \/ \E raised \in {"KeyboardInterrupt", "Exception"} :
             scraper' = [scraper EXCEPT !.raised = raised, !.pc = "except"]
    /\ UNCHANGED <<jobs, heap, lock, clock, nextId, snap, lifecycle, ncalls,
                   stores, analyses, procs, import_result, auditor>>

\* lines 215-216: every query is done
main_completed ==
    /\ scraper # None
    /\ scraper.pc = "queries"
    /\ scraper.i = scraper.queries
    /\ scraper' = [scraper EXCEPT !.file = save_results(@, scraper.all_urls),
                                  !.exit = Some(0), !.pc = "finally"]
    /\ UNCHANGED <<jobs, heap, lock, clock, nextId, snap, lifecycle, ncalls,
                   stores, analyses, procs, import_result, auditor>>

\* lines 218-220
except_KeyboardInterrupt ==
    /\ scraper # None
    /\ scraper.pc = "except"
    /\ scraper.raised = "KeyboardInterrupt"
    /\ scraper' = [scraper EXCEPT !.file = save_results(@, scraper.all_urls),
                                  !.exit = Some(0), !.pc = "finally"]
    /\ UNCHANGED <<jobs, heap, lock, clock, nextId, snap, lifecycle, ncalls,
                   stores, analyses, procs, import_result, auditor>>

\* lines 222-226: the traceback, then sys.exit(1)
except_Exception ==
    /\ scraper # None
    /\ scraper.pc = "except"
    /\ scraper.raised = "Exception"
    /\ scraper' = [scraper EXCEPT !.exit = Some(1), !.pc = "finally"]
    /\ UNCHANGED <<jobs, heap, lock, clock, nextId, snap, lifecycle, ncalls,
                   stores, analyses, procs, import_result, auditor>>

\* lines 228-230
main_finally ==
    /\ scraper # None
    /\ scraper.pc = "finally"
    /\ scraper' = [scraper EXCEPT !.browser = "closed", !.pc = "exited"]
    /\ UNCHANGED <<jobs, heap, lock, clock, nextId, snap, lifecycle, ncalls,
                   stores, analyses, procs, import_result, auditor>>

InitScraper ==
    /\ jobs = <<>>
    /\ heap = <<>>
    /\ lock = None
    /\ clock = MicrosPerSecond - 1
    /\ nextId = 0
    /\ snap = None
    /\ lifecycle = <<>>
    /\ ncalls = 0
    /\ stores = <<>>
    /\ analyses = <<>>
    /\ procs = <<>>
    /\ import_result = None
    /\ auditor = None
    /\ \E queries \in 1..MaxQueries :
          scraper = [pc |-> "setup", queries |-> queries, i |-> 0, all_urls |-> {},
                     file |-> None, browser |-> "none", raised |-> "", exit |-> None]

NextScraper ==
    \/ setup_driver
    \/ search_google
    \/ main_completed
    \/ except_KeyboardInterrupt
    \/ except_Exception
    \/ main_finally

SpecScraper == InitScraper /\ [][NextScraper]_vars

----------------------------------------------------------------------------
(* The discovery view (stores/views.py, run_selenium): each POST runs the  *)
(* scraper as a child process on one fixed output path and imports what    *)
(* the file at that path holds.  scraper.file is that file; it outlives    *)
(* the child, and nothing in the view removes it                           *)

MaxRuns == 2

\* output_file.read_text() as parse_urls_from_text finds it: save_results
\* wrote sorted(set(urls)), one url a line, and each line is one match
read_text(file) ==
    LET sorted == <<"https://a.myshopify.com", "https://b.myshopify.com",
                    "https://c.myshopify.com">>
        pieces == [u \in FoundUrls |->
                     <<"https://",
                       IF u = "https://a.myshopify.com" THEN "a"
                       ELSE IF u = "https://b.myshopify.com" THEN "b" ELSE "c",
                       ".myshopify.com">>]
        lines  == SelectSeq(sorted, LAMBDA u : u \in file)
    IN  [i \in DOMAIN lines |-> pieces[lines[i]]]

\* lines 99-131: a valid POST; subprocess.run starts the child.  The GET
\* that followed the last POST has popped import_result from the session
run_selenium_post ==
    /\ scraper.pc = "idle"
    /\ scraper.runs < MaxRuns
    /\ \E queries \in 1..MaxQueries :
          scraper' = [scraper EXCEPT !.pc = "setup", !.queries = queries, !.i = 0,
                                     !.all_urls = {}, !.browser = "none",
                                     !.raised = "", !.exit = None, !.runs = @ + 1]
    /\ import_result' = None
    /\ UNCHANGED <<jobs, heap, lock, clock, nextId, snap, lifecycle, ncalls,
                   stores, analyses, procs, auditor>>

\* lines 135-160: the child has exited within the timeout
run_selenium_returned ==
    /\ scraper.pc = "exited"
    /\ scraper' = [scraper EXCEPT !.pc = "idle"]
    /\ IF scraper.exit # Some(0) \/ scraper.file = None
       THEN UNCHANGED <<stores, import_result>>
       ELSE \E niche \in {"altro"}, source_label \in {""}, faults \in SUBSET (1..1) :
               \E result \in {import_stores_from_content(
                                  stores, read_text(scraper.file[1]), niche,
                                  IF source_label # "" THEN source_label
                                  ELSE "Selenium - query",
                                  faults)} :
                   /\ stores' = result.stores
                   /\ import_result' =
                         Some([imported |-> [i \in DOMAIN result.imported |->
                                          result.stores[result.imported[i]].url],
                               skipped |-> result.skipped, errors |-> result.errors,
                               total_found |-> result.total_found])
    /\ UNCHANGED <<jobs, heap, lock, clock, nextId, snap, lifecycle, ncalls,
                   analyses, procs, auditor>>

\* lines 131-134, 162-163: the child is still running after timeout seconds;
\* subprocess.run kills it where it stands and raises TimeoutExpired
except_TimeoutExpired ==
    /\ scraper.pc \notin {"idle", "exited"}
    /\ scraper' = [scraper EXCEPT !.pc = "idle"]
    /\ UNCHANGED <<jobs, heap, lock, clock, nextId, snap, lifecycle, ncalls,
                   stores, analyses, procs, import_result, auditor>>

InitSelenium ==
    /\ jobs = <<>>
    /\ heap = <<>>
    /\ lock = None
    /\ clock = MicrosPerSecond - 1
    /\ nextId = 0
    /\ snap = None
    /\ lifecycle = <<>>
    /\ ncalls = 0
    /\ stores = <<>>
    /\ analyses = <<>>
    /\ procs = <<>>
    /\ import_result = None
    /\ auditor = None
    /\ scraper = [pc |-> "idle", queries |-> 0, i |-> 0, all_urls |-> {},
                  file |-> None, browser |-> "none", raised |-> "", exit |-> None,
                  runs |-> 0]

NextSelenium ==
    \/ run_selenium_post
    \/ NextScraper
    \/ run_selenium_returned
    \/ except_TimeoutExpired

SpecSelenium == InitSelenium /\ [][NextSelenium]_vars

----------------------------------------------------------------------------
(* Job tracker: properties, checked under SpecTracker *)

\* C1: a job whose calls were create_job, any number of add_log, one
\* mark_store_done(success=True) and then complete_job(analysis_pk) is
\* returned by get_job with status completed, completed = 1, success = 1,
\* errors = 0, a finish time, no current target, and the analysis_pk passed.
C1_Lifecycle ==
    \A j \in DOMAIN jobs :
        lifecycle[j].phase = "completed" =>
            /\ get_job(Reg, j) # None
            /\ LET s == get_job(Reg, j)[1]
               IN  /\ s.status = "completed"
                   /\ s.completed = 1
                   /\ s.success = 1
                   /\ s.errors = 0
                   /\ s.finished_at # None
                   /\ s.current_url = None
                   /\ s.current_name = None
                   /\ s.analysis_pk = lifecycle[j].pk

\* C1 witness: get_job has returned such a job, with a log line and an
\* analysis id attached
C1_Witness ==
    /\ snap # None
    /\ snap[1].id \in DOMAIN jobs
    /\ lifecycle[snap[1].id].phase = "completed"
    /\ snap = get_job(Reg, snap[1].id)
    /\ Len(snap[1].logs) = 1
    /\ snap[1].analysis_pk = Some(7)

\* C3: no step removes a job that is running
C3_RunningNeverRemoved ==
    [][\A j \in DOMAIN jobs : jobs[j].status = "running" => j \in DOMAIN jobs']_vars

\* C3 witness: a sweep has removed a job while an older job, still
\* running, stayed
C3_Witness ==
    \E j \in DOMAIN jobs, d \in KnownIds \ DOMAIN jobs :
        /\ jobs[j].status = "running"
        /\ j < d

\* the time an isoformat text stands for, in microseconds
fromisoformat(text) ==
    text[1] * MicrosPerSecond + (IF Len(text) = 2 THEN text[2] ELSE 0)

DistinctStarts(J) ==
    \A j, k \in DOMAIN J : j # k => J[j].started_at # J[k].started_at

Finished(J) == {j \in DOMAIN J : J[j].status # "running"}

Min(a, b) == IF a < b THEN a ELSE b

\* the n finished jobs that started first
Oldest(J, n) ==
    {j \in Finished(J) :
        Cardinality({k \in Finished(J) :
            fromisoformat(J[k].started_at) < fromisoformat(J[j].started_at)}) < n}

\* C4: with distinct start times, a sweep with any cap removes nothing when
\* the registry holds at most cap jobs, and otherwise removes exactly the
\* min(N - cap, F) finished jobs that started first
C4_RetentionSweep ==
    DistinctStarts(jobs) =>
        \A cap \in 0..(Cardinality(DOMAIN jobs) + 1) :
            LET N     == Cardinality(DOMAIN jobs)
                after == cleanup_old_jobs(Reg, cap).jobs
            IN  /\ cleanup_old_jobs(Reg, cap).heap = heap
                /\ \A j \in DOMAIN after : after[j] = jobs[j]
                /\ IF N <= cap
                   THEN DOMAIN after = DOMAIN jobs
                   ELSE DOMAIN jobs \ DOMAIN after
                            = Oldest(jobs, Min(N - cap, Cardinality(Finished(jobs))))

\* C4 witness: a sweep over finished jobs has removed the oldest and left a
\* finished job that started later
C4_Witness ==
    /\ DistinctStarts(jobs)
    /\ \E j \in DOMAIN jobs :
          /\ jobs[j].status # "running"
          /\ KnownIds \ DOMAIN jobs = {d \in KnownIds : d < j}
          /\ KnownIds \ DOMAIN jobs # {}

\* a dict with the entry dicts of its two lists read through the heap
Deref(d, H) ==
    [d EXCEPT !.logs    = [i \in 1..Len(d.logs) |-> H[d.logs[i]]],
              !.results = [i \in 1..Len(d.results) |-> H[d.results[i]]]]

RegistryView == [j \in DOMAIN jobs |-> Deref(jobs[j], heap)]
SnapshotView == IF snap = None THEN None ELSE Some(Deref(snap[1], heap))

\* C6: the dict get_job returned shares nothing with the registry: no
\* tracker call changes what it holds, and nothing the client does to it,
\* down to one entry of its lists, changes what the registry holds
C6_SnapshotIndependent ==
    [][/\ (TrackerCall /\ snap' = snap) => SnapshotView' = SnapshotView
       /\ ClientChange => RegistryView' = RegistryView]_vars

----------------------------------------------------------------------------
(* The audit workflows: properties, checked under Spec and SpecLock *)

Terminal == {"completed", "error"}

\* C2: a workflow sets a job's terminal status once: complete_job and
\* fail_job are only ever called on a job that is still running, and no
\* step changes a status that is completed or error
C2_TerminalOnce ==
    [][/\ \A p \in DOMAIN procs :
             (procs[p].pc \in {"complete", "fail"} /\ procs'[p].pc # procs[p].pc)
                 => (p \in DOMAIN jobs /\ jobs[p].status = "running"
                       /\ jobs'[p].status \in Terminal)
       /\ \A j \in DOMAIN jobs \cap DOMAIN jobs' :
             jobs[j].status \in Terminal => jobs'[j].status = jobs[j].status]_vars

\* C2 witness: a bulk thread has ended, having logged and swept after
\* complete_job, and its job is completed
C2_Witness ==
    \E p \in DOMAIN procs :
        /\ procs[p].kind = "bulk"
        /\ procs[p].pc = "done"
        /\ jobs[p].status = "completed"
        /\ heap[jobs[p].logs[Len(jobs[p].logs)]].msg = <<"Analisi bulk completata.">>

\* the places of a process where it reads or writes the registry
RegistrySites == LockedSites \cup {"store_pk"}

\* C5: every read and write of the registry happens under the lock: no
\* process reads or writes the registry while another thread holds the
\* lock, so no write (the store_pk of analyze_store included) falls inside
\* another thread's get_job
C5_UnderLock ==
    [][\A p \in DOMAIN procs :
          (procs[p].pc \in RegistrySites /\ procs'[p].pc # procs[p].pc)
              => lock \in {None, Thread(p)}]_vars

\* C7: a thread never ends by raising, and when it has ended its job is
\* completed or error
C7_EveryJobEnds ==
    \A p \in DOMAIN procs :
        procs[p].pc \in {"done", "raised"} =>
            /\ procs[p].pc = "done"
            /\ p \in DOMAIN jobs
            /\ jobs[p].status \in Terminal

\* what the result holds for a field of the Store
ScrapedValue(data, f) == IF f = "name" THEN data.store_title ELSE data[f]

\* C8: the save that ends a successful audit leaves every contact field
\* (and the name) that the store had non-blank as it was, and fills one
\* that was blank only with a non-empty scraped value
C8_FillOnlyBlank ==
    [][\A p \in DOMAIN procs :
          (procs[p].pc = "ra_save" /\ procs'[p].pc = "ra_log_done") =>
              LET store == procs[p].store[1]
                  data  == procs[p].data[1]
                  row   == stores[store.pk]
                  saved == stores'[store.pk]
              IN  \A f \in ContactFields \cup {"name"} :
                      /\ store[f] # "" => saved[f] = row[f]
                      /\ (store[f] = "" /\ ScrapedValue(data, f) # "")
                             => saved[f] = ScrapedValue(data, f)
                      /\ (store[f] = "" /\ ScrapedValue(data, f) = "")
                             => saved[f] = row[f]]_vars

\* C8 witness: the shop that had a phone and no email has been audited; the
\* scrape found a phone and an email; the row has the old phone, the new
\* email and its old name
C8_Witness ==
    \E p \in DOMAIN procs :
        /\ procs[p].pc = "ra_log_done"
        /\ procs[p].before[1].phone = "phone-old"
        /\ procs[p].before[1].email = ""
        /\ procs[p].data[1].phone = "new-phone"
        /\ stores[procs[p].store[1].pk].phone = "phone-old"
        /\ stores[procs[p].store[1].pk].email = "new-email"
        /\ stores[procs[p].store[1].pk].name = "Brand"

\* run_analysis has just returned from one of its two except clauses
EndedInException(proc) ==
    /\ proc.pc = "mark"
    /\ proc.result # None
    /\ proc.failure # None
    /\ proc.failure[1].msg[1] \in {"Eccezione: ", "Timeout - analisi oltre 2 minuti"}

\* C9: when run_analysis ends in a timeout or any other exception it
\* returns a failure result, it has created no StoreAnalysis row, and the
\* Store's row is as it was when the audit began
C9_NothingPersisted ==
    \A p \in DOMAIN procs :
        EndedInException(procs[p]) =>
            /\ ~procs[p].result[1].success
            /\ procs[p].analysis = None
            /\ stores[procs[p].store[1].pk] = procs[p].before[1]

\* the results of job j, as recorded
Results(j) == [i \in 1..Len(jobs[j].results) |-> heap[jobs[j].results[i]]]

\* C10: a bulk audit takes the stores one at a time in the order supplied;
\* an audit that fails is recorded as failed and the next store follows; a
\* job that is completed, and a thread that has ended, have exactly one
\* result per store supplied, in the order supplied
C10_BulkInOrder ==
    \A p \in DOMAIN procs \cap DOMAIN jobs :
        procs[p].kind = "bulk" =>
            LET res == Results(p)
                n   == Len(procs[p].supplied)
            IN  /\ Len(res) <= n
                /\ \A i \in 1..Len(res) :
                      /\ res[i].url = procs[p].supplied[i]
                      /\ res[i].success = procs[p].returned[i]
                /\ Len(procs[p].returned) \in {Len(res), Len(res) + 1}
                /\ procs[p].store # None =>
                      /\ Len(res) < n
                      /\ procs[p].store[1].url = procs[p].supplied[Len(res) + 1]
                /\ jobs[p].status = "completed" => Len(res) = n
                /\ procs[p].pc = "done" => Len(res) = n

\* C10 witness: a completed bulk job over two stores whose first audit
\* failed and whose second succeeded
C10_Witness ==
    \E p \in DOMAIN procs \cap DOMAIN jobs :
        /\ procs[p].kind = "bulk"
        /\ jobs[p].status = "completed"
        /\ Len(procs[p].supplied) = 2
        /\ Len(Results(p)) = 2
        /\ ~Results(p)[1].success
        /\ Results(p)[2].success
        /\ Results(p)[1].url = procs[p].supplied[1]
        /\ Results(p)[2].url = procs[p].supplied[2]

\* C11: the Auditor's progress lines reach the job's log while the Auditor
\* is still running: whenever a thread forwards a progress line, the
\* subprocess of that audit has not yet ended
C11_LiveProgress ==
    [][\A p \in DOMAIN procs :
          (procs[p].pc = "ra_forward" /\ procs'[p].lines # procs[p].lines)
              => procs[p].child = "running"]_vars

----------------------------------------------------------------------------
(* The import of stores: properties, checked under SpecImport *)

\* two urls name one host: equal scheme and host once case and whatever
\* follows the host are set aside
SameHost(a, b) ==
    /\ Head(a) = Head(b)
    /\ Len(netloc(a)) = Len(netloc(b))
    /\ \A i \in DOMAIN netloc(a) : LowerChar(netloc(a)[i]) = LowerChar(netloc(b)[i])

\* C12: no two Store rows name the same host, and the import of a spelling
\* of a host that is stored (another case, a trailing slash) creates no
\* row and reports the url as skipped
C12_ImportDeduplicates ==
    /\ \A pk, other \in DOMAIN stores :
          SameHost(stores[pk].url, stores[other].url) => pk = other
    /\ \A raw \in RawUrls, niche \in Niches, source_label \in SourceLabels :
          (\E pk \in DOMAIN stores : SameHost(stores[pk].url, raw)) =>
              \A r \in {import_stores_from_content(stores, <<raw>>, niche,
                                                   source_label, {})} :
                  /\ r.stores = stores
                  /\ r.imported = <<>>
                  /\ Len(r.skipped) = 1
                  /\ SameHost(r.skipped[1], raw)
                  /\ r.errors = <<>>

\* C12 witness: one import has found two spellings of a host, has created
\* one row for the first and skipped the second
C12_Witness ==
    /\ import_result # None
    /\ import_result[1].total_found = 2
    /\ import_result[1].imported = << <<"https://", "s", "-", "b", ".myshopify.com">> >>
    /\ import_result[1].skipped = << <<"https://", "s", "-", "b", ".myshopify.com">> >>
    /\ Len(stores) = 1

\* C13: an import, whatever its content, niche and label, leaves every row
\* that was there as it was, and the import of the same content again
\* creates nothing and reports every url of the content as skipped
C13_ImportKeepsStores ==
    \A found \in Contents, niche \in Niches, source_label \in SourceLabels :
        \A r \in {import_stores_from_content(stores, found, niche, source_label, {})} :
            /\ Len(r.stores) >= Len(stores)
            /\ \A pk \in DOMAIN stores : r.stores[pk] = stores[pk]
            /\ \A r2 \in {import_stores_from_content(r.stores, found, niche,
                                                      source_label, {})} :
                  /\ r2.stores = r.stores
                  /\ r2.imported = <<>>
                  /\ r2.errors = <<>>
                  /\ r2.skipped = [i \in 1..Len(parse_urls_from_text(found)) |->
                         normalize_url(parse_urls_from_text(found)[i])]

\* C13 witness: an import with niche moda has created a row and skipped the
\* url of a row of niche altro whose status had been changed to contacted
C13_Witness ==
    /\ import_result # None
    /\ Len(import_result[1].imported) = 1
    /\ Len(import_result[1].skipped) = 1
    /\ \E old, new \in DOMAIN stores :
          /\ old < new
          /\ stores[old].url = import_result[1].skipped[1]
          /\ stores[old].status = "contacted"
          /\ stores[old].niche = "altro"
          /\ stores[new].url = import_result[1].imported[1]
          /\ stores[new].status = "new"
          /\ stores[new].niche = "moda"

----------------------------------------------------------------------------
(* The Auditor's scoring functions: properties, checked under SpecScoring *)

\* C18: the total calculate_lead_score returns is the sum of the five
\* component points of the table, it lies in 0..100, and priority and
\* potential are HOT/ALTO from 70, WARM/MEDIO from 50 to 69, else COLD/BASSO
C18_LeadScore ==
    (auditor # None /\ auditor.fn = "calculate_lead_score" /\ auditor.returned # None) =>
        LET in      == auditor.args
            out     == auditor.returned[1]
            n       == in.products_info.total_count
            iq      == in.img_quality.quality_score
            price   == in.products_info.price_avg
            socials == Cardinality({k \in DOMAIN in.social : in.social[k] # ""})
            email_points   == IF in.contacts.email # "" THEN 20 ELSE 0
            product_points == IF n >= 50 THEN 15 ELSE IF n >= 20 THEN 10
                              ELSE IF n >= 10 THEN 5 ELSE 0
            image_points   == IF iq < 50 THEN 35 ELSE IF iq < 70 THEN 20 ELSE 5
            price_points   == IF price >= 10000 THEN 15 ELSE IF price >= 5000 THEN 10 ELSE 5
            social_points  == IF socials >= 3 THEN 15 ELSE IF socials >= 1 THEN 8 ELSE 0
        IN  /\ out.total_score = email_points + product_points + image_points
                                     + price_points + social_points
            /\ out.total_score \in 0..100
            /\ (out.priority = "HOT" /\ out.potential = "ALTO") <=> out.total_score >= 70
            /\ (out.priority = "WARM" /\ out.potential = "MEDIO")
                   <=> (out.total_score >= 50 /\ out.total_score < 70)
            /\ (out.priority = "COLD" /\ out.potential = "BASSO") <=> out.total_score < 50

\* C18 witness: a shop with an email, 20 products, image score 45, average
\* price 50.00 and no social link has scored exactly 70 and is HOT
C18_Witness ==
    /\ auditor # None
    /\ auditor.fn = "calculate_lead_score"
    /\ auditor.returned # None
    /\ auditor.args.products_info.total_count = 20
    /\ auditor.returned[1].total_score = 70
    /\ auditor.returned[1].priority = "HOT"

\* C19: for a catalog that is not empty the score is 100 less 30 when the
\* average number of images per product is below 3, less 25 when more than
\* 30% of the products have exactly one image, less 20 when some image is
\* narrower or lower than 1000px, less 15 when more than half of the images
\* have no alt text, and the issues are one per deduction made, or the one
\* placeholder
C19_FastHeuristic ==
    (auditor # None /\ auditor.fn = "analyze_product_images_fast"
        /\ auditor.returned # None) =>
        LET products == auditor.args
            out      == auditor.returned[1]
            imgs     == Flat([i \in DOMAIN products |-> products[i].images])
            n        == Len(products)
            few      == Len(imgs) < 3 * n
            singles  == 10 * Cardinality({i \in DOMAIN products :
                                             Len(products[i].images) = 1}) > 3 * n
            low      == \E i \in DOMAIN imgs :
                            imgs[i].width[2] < 1000 \/ imgs[i].height[2] < 1000
            no_alt   == 2 * Cardinality({i \in DOMAIN imgs : imgs[i].alt = ""}) > Len(imgs)
            deductions == Cardinality({b \in {<<1, few>>, <<2, singles>>, <<3, low>>,
                                              <<4, no_alt>>} : b[2]})
        IN  /\ ~out.raised
            /\ out.quality_score = 100 - (IF few THEN 30 ELSE 0) - (IF singles THEN 25 ELSE 0)
                                       - (IF low THEN 20 ELSE 0) - (IF no_alt THEN 15 ELSE 0)
            /\ Len(out.issues) = IF deductions = 0 THEN 1 ELSE deductions

----------------------------------------------------------------------------
(* The Auditor's run: properties, checked under SpecAuditor *)

\* the lines of stdout that start with the sentinel
Sentinels == {i \in DOMAIN auditor.stdout : auditor.stdout[i][1] = "RESULT_JSON:"}

\* C14: when the check of the catalog endpoint fails, the run ends with a
\* result of success false and an error, exit status 1, none of the later
\* stages executed and no report written
C14_VerificationGate ==
    (auditor # None /\ auditor.response.kind # "catalog" /\ auditor.pc # "verify") =>
        /\ auditor.pc = "exited"
        /\ auditor.exit = Some(1)
        /\ Sentinels # {}
        /\ \A i \in Sentinels : /\ ~auditor.stdout[i][2].success
                                /\ auditor.stdout[i][2].error # ""
        /\ auditor.stages = <<>>
        /\ auditor.files = {}

\* C14 witness: a run whose endpoint answered JSON without 'products' has
\* ended with the failure result
C14_Witness ==
    /\ auditor # None
    /\ auditor.response.kind = "no products key"
    /\ auditor.pc = "exited"
    /\ auditor.exit = Some(1)
    /\ Sentinels = {Len(auditor.stdout)}

\* C15: once a run has ended with a result or at the failed verification,
\* stdout holds exactly one sentinel line and it is the last line, whatever
\* the pool threads logged
C15_OneSentinelLast ==
    (auditor # None /\ auditor.pc = "exited"
        /\ (auditor.exit = Some(0) \/ auditor.response.kind # "catalog")) =>
        Sentinels = {Len(auditor.stdout)}

\* C15 witness: a run with cv2 whose pool threads logged both images has
\* printed its result
C15_Witness ==
    /\ auditor # None
    /\ auditor.pc = "exited"
    /\ auditor.exit = Some(0)
    /\ auditor.HAS_CV2
    /\ auditor.analyzed = MaxImages
    /\ Cardinality({i \in DOMAIN auditor.stdout :
                        auditor.stdout[i][1] = "[analyzer]" /\ auditor.stdout[i][2] = "Grade"})
           = MaxImages

\* C16: a run that passed the verification and has ended has printed a
\* result of success true
C16_AlwaysSucceeds ==
    (auditor # None /\ auditor.response.kind = "catalog" /\ auditor.pc = "exited") =>
        /\ Sentinels # {}
        /\ \A i \in Sentinels : auditor.stdout[i][2].success

\* C17: a run that ended with a result of success true has written a report
\* file into the output directory and names it in report_file
C17_ReportWritten ==
    (auditor # None /\ auditor.pc = "exited" /\ auditor.exit = Some(0)) =>
        \A i \in Sentinels :
            /\ auditor.stdout[i][2].report_file # ""
            /\ auditor.stdout[i][2].report_file \in auditor.files

----------------------------------------------------------------------------
(* The discovery scraper: properties, checked under SpecScraper *)

\* C20: a run that an interruption or an exception ended has written the
\* urls of the queries completed so far to the output file, and every run
\* that started the browser has closed it when it exits
C20_PartialResultsSaved ==
    (scraper # None /\ scraper.pc = "exited") =>
        /\ (scraper.raised # "" /\ scraper.all_urls # {})
               => scraper.file = Some(scraper.all_urls)
        /\ scraper.browser # "open"

----------------------------------------------------------------------------
(* The audit workflows, second part: properties checked under Spec *)

\* C21: a single job holds at most one result; it is COMPLETED only after
\* run_analysis succeeded, with one successful result, success 1, errors 0
\* and the pk of the analysis created for its store; it is ERROR only after
\* run_analysis failed, with one failed result, success 0, errors 1 and a
\* last log entry 'Errore fatale: <error>'; and when its thread is over it
\* is the one or the other
C21_SingleOutcome ==
    \A p \in DOMAIN procs :
        (procs[p].kind = "single" /\ p \in DOMAIN jobs) =>
            LET job == jobs[p]
                proc == procs[p]
            IN  /\ Len(job.results) <= 1
                /\ job.status = "completed" =>
                      /\ proc.result # None /\ proc.result[1].success
                      /\ job.analysis_pk # None
                      /\ job.analysis_pk = proc.result[1].analysis
                      /\ analyses[job.analysis_pk[1]].store = proc.store[1].pk
                      /\ Len(job.results) = 1 /\ heap[job.results[1]].success
                      /\ job.success = 1 /\ job.errors = 0
                /\ job.status = "error" =>
                      /\ proc.result # None /\ ~proc.result[1].success
                      /\ job.analysis_pk = None
                      /\ Len(job.results) = 1 /\ ~heap[job.results[1]].success
                      /\ job.success = 0 /\ job.errors = 1
                      /\ job.logs # <<>>
                      /\ heap[job.logs[Len(job.logs)]].level = "error"
                      /\ heap[job.logs[Len(job.logs)]].msg
                             = <<"Errore fatale: ", proc.result[1].error>>
                /\ proc.pc = "done" =>
                      job.status = IF proc.result[1].success THEN "completed" ELSE "error"

\* C21 witness: a single audit that the Auditor refused as not a Shopify
\* store has ended in ERROR with the fatal error logged
C21_Witness ==
    \E p \in DOMAIN procs :
        /\ procs[p].kind = "single" /\ procs[p].pc = "done"
        /\ jobs[p].status = "error"
        /\ jobs[p].errors = 1
        /\ heap[jobs[p].logs[Len(jobs[p].logs)]].msg
               = <<"Errore fatale: ", "Non sembra uno store Shopify attivo">>

\* C22: the answer to a poll of a job has no redirect_url while the job is
\* RUNNING or ERROR; for a COMPLETED job it is the report page of the
\* recorded analysis if the job is single and has one, else the detail page
\* of the recorded store if it has one, else the store list
C22_Redirect ==
    \A j \in DOMAIN jobs :
        LET job    == jobs[j]
            answer == job_status_api(Reg, j)
        IN  /\ answer.http = 200
            /\ job.status \in {"running", "error"} => answer.redirect_url = None
            /\ job.status = "completed" =>
                  answer.redirect_url =
                      IF job.type = "single" /\ job.analysis_pk # None
                      THEN Some(<<"/analyzer/report/", ToString(job.analysis_pk[1]), "/">>)
                      ELSE IF job.store_pk # None
                      THEN Some(<<"/stores/", ToString(job.store_pk[1]), "/">>)
                      ELSE Some(<<"/stores/">>)

\* C22 witness: the poll of a completed single job is sent to the report of
\* the analysis the audit created
C22_Witness ==
    \E j \in DOMAIN jobs :
        /\ jobs[j].type = "single"
        /\ jobs[j].status = "completed"
        /\ jobs[j].store_pk # None
        /\ job_status_api(Reg, j).redirect_url = Some(<<"/analyzer/report/", "1", "/">>)

\* C23: a job that is not RUNNING has neither a current url nor a current
\* name
C23_IdleHasNoCurrent ==
    \A j \in DOMAIN jobs :
        jobs[j].status # "running" =>
            (jobs[j].current_url = None /\ jobs[j].current_name = None)

\* C28: no step changes the logs, the results or the counters of a job
\* that is COMPLETED or ERROR
C28_FinishedIsFinal ==
    [][\A j \in DOMAIN jobs \cap DOMAIN jobs' :
          jobs[j].status \in Terminal =>
              /\ jobs'[j].logs = jobs[j].logs
              /\ jobs'[j].results = jobs[j].results
              /\ jobs'[j].completed = jobs[j].completed
              /\ jobs'[j].success = jobs[j].success
              /\ jobs'[j].errors = jobs[j].errors]_vars

----------------------------------------------------------------------------
(* Job tracker, second part: properties checked under SpecTracker *)

\* C25: after every step, each job has completed = success + errors = the
\* number of its results, none of the three counters is negative or lower
\* than before the step, and the results flagged success are as many as
\* the success counter says
C25_Counters ==
    [][\A j \in DOMAIN jobs' :
          LET job == jobs'[j]
          IN  /\ job.completed = job.success + job.errors
              /\ job.completed = Len(job.results)
              /\ job.completed >= 0 /\ job.success >= 0 /\ job.errors >= 0
              /\ Cardinality({i \in DOMAIN job.results : heap'[job.results[i]].success})
                     = job.success
              /\ j \in DOMAIN jobs =>
                    /\ job.completed >= jobs[j].completed
                    /\ job.success >= jobs[j].success
                    /\ job.errors >= jobs[j].errors]_vars

\* C25 witness: a job with one store done well and one failed
C25_Witness ==
    \E j \in DOMAIN jobs :
        /\ jobs[j].completed = 2
        /\ jobs[j].success = 1
        /\ jobs[j].errors = 1
        /\ Len(jobs[j].results) = 2

----------------------------------------------------------------------------
(* The store table: properties checked under SpecStatus *)

\* C24: every store's status is one of Store.Status.choices, and a POST to
\* change_status that carries anything else leaves the table as it is
C24_StatusEnumerated ==
    /\ \A pk \in DOMAIN stores : stores[pk].status \in StatusChoices
    /\ \A pk \in DOMAIN stores, new_status \in Submitted \ StatusChoices :
          change_status_post(stores, pk, new_status) = stores

\* C24 witness: of two imported stores one was audited and one was set to
\* contacted
C24_Witness ==
    \E a, b \in DOMAIN stores :
        /\ stores[a].status = "analyzed"
        /\ stores[a].email = "new-email"
        /\ stores[b].status = "contacted"

----------------------------------------------------------------------------
(* The audit workflows beside an operator: properties checked under        *)
(* SpecEdits                                                               *)

\* C26: a bulk job never has more stores completed than its total, and when
\* it is COMPLETED it has exactly its total completed
C26_BulkSizing ==
    \A j \in DOMAIN jobs :
        jobs[j].type = "bulk" =>
            /\ jobs[j].completed <= jobs[j].total
            /\ jobs[j].status = "completed" => jobs[j].completed = jobs[j].total

\* C27: the step in which an audit saves its store changes no contact or
\* social field that is not blank in the table
C27_FillOnlyBlankAlways ==
    [][\A p \in DOMAIN procs :
          (procs[p].pc = "ra_save" /\ procs'[p].pc # "ra_save") =>
              \A pk \in DOMAIN stores, f \in ContactFields :
                  stores[pk][f] # "" => stores'[pk][f] = stores[pk][f]]_vars

----------------------------------------------------------------------------
(* Retention: properties checked under SpecRetention *)

\* C29: when every audit workflow that was started is over, the registry
\* holds at most DefaultMaxJobs jobs that are not RUNNING
C29_BoundedRetention ==
    (procs # <<>> /\ \A p \in DOMAIN procs : procs[p].pc = "done") =>
        Cardinality(Finished(jobs)) <= DefaultMaxJobs

----------------------------------------------------------------------------
(* Discovery: properties checked under SpecSelenium *)

\* C30: the stores a discovery request has imported are at urls that the
\* scraper run of that request harvested; a run that harvested nothing
\* imports nothing
C30_ImportsOwnHarvest ==
    (scraper.pc = "idle" /\ import_result # None) =>
        \A i \in DOMAIN import_result[1].imported :
            \E u \in scraper.all_urls :
                import_result[1].imported[i] = read_text({u})[1]

====
